---- MODULE Spec2Model ----
(***************************************************************************)
(* A model of the Codec2 buffer utilities of frameworks/av:                *)
(*   - GraphicView2MediaImageConverter (Codec2BufferUtils.cpp), the        *)
(*     C2GraphicView <=> MediaImage2 converter: its constructor as a pure  *)
(*     operator over a view, a client colour format and the copy flag, and *)
(*     its methods as actions on one converter instance;                   *)
(*   - MemoryBlockPool (Codec2BufferUtils.cpp), the raw memory mini-pool;  *)
(*   - the Codec2Buffer variants (Codec2Buffer.cpp): their factories and   *)
(*     canCopy / copy / asC2Buffer / clearC2BufferRefs on one instance.    *)
(* Plane and data indices are 0-based as in the source.                    *)
(***************************************************************************)
EXTENDS Integers, Sequences, FiniteSets, TLC

VARIABLES
    conv,           \* the converter instance (its member fields), or NoConv
    ctorArgs,       \* the constructor's arguments (format, copy) of conv
    bufRange,       \* ABuffer id -> (offset, size) range of that buffer
    bufWritten,     \* ABuffer id -> an image copy has written into the buffer
    ret,            \* the last converter call and what it returned
    adopted,        \* history: a setBackBuffer() on conv has returned true
    mFreeBlocks,    \* MemoryBlockPoolImpl::mFreeBlocks
    mBlocksInUse,   \* MemoryBlockPoolImpl::mBlocksInUse
    mCurrentSize,   \* MemoryBlockPoolImpl::mCurrentSize
    allocCount,     \* number of MemoryBlockPoolBlock allocations so far
    poolLog,        \* history: the fetch/release calls made on the pool
    codec2Buffer,   \* the Codec2Buffer instance (its fields), or NoBuffer
    bufferRet,      \* the last Codec2Buffer call and what it returned
    mappedBlock,    \* the MappedBlock of the encrypted buffer (its mView), or NoMapped
    blockBytes,     \* byte of the C2LinearBlock -> the copy that wrote it last (0: none)
    copies,         \* number of copyDecryptedContent calls so far
    mappedRet,      \* the last call on the encrypted buffer and what it returned
    copyJob,        \* the view, the image descriptor and the image base of the image copies, or NoJob
    imgData,        \* byte offset from imgBase -> the byte an image copy has stored there
    backData,       \* address -> the byte a copy into the view has stored there
    copyRet,        \* the last ImageCopy call and what it returned
    cancellation_signal_,\* impl::stop_source::cancellation_signal_ of the jthread
    thread_,        \* where the callable running in jthread::thread_ is
    owner,          \* where the thread that owns the jthread is
    xCount,         \* x, the counter the callable increments
    is_stopped,     \* the callable has left its loop
    stopRet,        \* what the last jt.request_stop() returned
    powerSum,       \* two PowerStats values with their sums in both orders, or NoSum
    mMutex,         \* MemoryBlockPoolImpl::mMutex: the caller that holds it, or Unlocked
    callerAt,       \* caller -> where it is in fetch or release
    callerLocal,    \* caller -> the size, the block iterator and the fetched block of its call
    callerBlocks,   \* caller -> the blocks of the MemoryBlocks it holds
    destroyed       \* the blocks whose MemoryBlockPoolBlock has been destroyed

convVars == <<conv, ctorArgs, bufRange, bufWritten, ret, adopted>>
poolVars == <<mFreeBlocks, mBlocksInUse, mCurrentSize, allocCount, poolLog>>
bufferVars == <<codec2Buffer, bufferRet>>
mappedVars == <<mappedBlock, blockBytes, copies, mappedRet>>
copyVars == <<copyJob, imgData, backData, copyRet>>
jthreadVars == <<cancellation_signal_, thread_, owner, xCount, is_stopped,
                 stopRet>>
powerVars == <<powerSum>>
callerVars == <<mMutex, callerAt, callerLocal, callerBlocks, destroyed>>

\* what the actions on the converter, on the pool and on the Codec2Buffer
\* leave alone
exceptConv == <<poolVars, bufferVars, mappedVars, copyVars, jthreadVars,
                powerVars, callerVars>>
exceptPool == <<convVars, bufferVars, mappedVars, copyVars, jthreadVars,
                powerVars, callerVars>>
exceptBuffer == <<convVars, poolVars, mappedVars, copyVars, jthreadVars,
                  powerVars, callerVars>>
exceptMapped == <<poolVars, bufferVars, convVars, copyVars, jthreadVars,
                  powerVars, callerVars>>
exceptCopy == <<poolVars, bufferVars, mappedVars, convVars, jthreadVars,
                powerVars, callerVars>>
exceptJthread == <<poolVars, bufferVars, mappedVars, copyVars, convVars,
                   powerVars, callerVars>>
exceptPower == <<poolVars, bufferVars, mappedVars, copyVars, jthreadVars,
                 convVars, callerVars>>

vars == <<conv, ctorArgs, bufRange, bufWritten, ret, adopted,
          mFreeBlocks, mBlocksInUse, mCurrentSize, allocCount, poolLog,
          codec2Buffer, bufferRet,
          mappedBlock, blockBytes, copies, mappedRet,
          copyJob, imgData, backData, copyRet,
          cancellation_signal_, thread_, owner, xCount, is_stopped, stopRet,
          powerSum,
          mMutex, callerAt, callerLocal, callerBlocks, destroyed>>

----------------------------------------------------------------------------
(* Bounds of the model.                                                    *)

\* the crop widths of the views are 1..MaxWidth
MaxWidth == 2
\* the crop height of the views
MaxHeight == 2
\* the pool is asked for sizes 0..MaxSize
MaxSize == 2
\* number of fetch/release calls made on the pool
MaxPoolOps == 7
\* the linear Codec2Buffers have capacities 0..MaxCapacity
MaxCapacity == 2

----------------------------------------------------------------------------
(* Values.                                                                 *)

\* a null sp<ABuffer>; every sp<ABuffer> is a record with an id
NULL == [id |-> "nullptr"]
OK == "OK"
BAD_VALUE == "BAD_VALUE"
NO_INIT == "NO_INIT"
C2_OK == "C2_OK"
C2_CORRUPTED == "C2_CORRUPTED"

Abs(x) == IF x < 0 THEN -x ELSE x

\* AUtils.h align(x, to) for a power of two `to`, and divUp
align(x, to) == ((x + (to - 1)) \div to) * to
divUp(a, b) == (a + b - 1) \div b

\* C2PlaneInfo::minOffset / maxOffset
minOffset(plane, width, height) ==
    (IF width > 0 /\ plane.colInc < 0 THEN plane.colInc * (width - 1) ELSE 0)
    + (IF height > 0 /\ plane.rowInc < 0 THEN plane.rowInc * (height - 1) ELSE 0)

maxOffset(plane, width, height) ==
    ((plane.allocatedDepth + 7) \div 8)
    + (IF width > 0 /\ plane.colInc > 0 THEN plane.colInc * (width - 1) ELSE 0)
    + (IF height > 0 /\ plane.rowInc > 0 THEN plane.rowInc * (height - 1) ELSE 0)

\* MediaImage2 plane indices and C2PlanarLayout plane indices
PLANE_Y == 0
PLANE_U == 1
PLANE_V == 2

\* the colour formats for which the constructor sets clientBitDepth = 8
Yuv8BitFormats ==
    {"YUV411PackedPlanar", "YUV411Planar", "YUV420Flexible",
     "YUV420PackedPlanar", "YUV420PackedSemiPlanar", "YUV420Planar",
     "YUV420SemiPlanar", "YUV422Flexible", "YUV422PackedPlanar",
     "YUV422PackedSemiPlanar", "YUV422Planar", "YUV422SemiPlanar",
     "YUV444Flexible", "YUV444Interleaved"}

\* the colour formats accepted for an RGB layout, and for an RGBA layout
RgbFormats == {"Surface", "RGBFlexible", "24bitBGR888", "24bitRGB888"}
RgbaFormats ==
    {"Surface", "RGBAFlexible", "32bitABGR8888", "32bitARGB8888", "32bitBGRA8888"}

\* clientBitDepth without its COLOR_FormatYUVP010 case
clientBitDepth_NoP010(fmt) ==
    IF fmt \in Yuv8BitFormats THEN {8} ELSE {}

\* clientBitDepth of the constructor: the std::optional<int> as the set of
\* its values (empty when it holds none)
clientBitDepth(fmt) ==
    IF fmt = "YUVP010" THEN {10}
    ELSE IF fmt \in Yuv8BitFormats THEN {8}
    ELSE {}

\* a MediaImage2 plane descriptor
ImgPlane(off, colInc, rowInc, hs, vs) ==
    [mOffset |-> off, mColInc |-> colInc, mRowInc |-> rowInc,
     mHorizSubsampling |-> hs, mVertSubsampling |-> vs]

\* the MediaImage2 after memset(mediaImage, 0, sizeof(*mediaImage))
ZeroImage ==
    [mType |-> "UNKNOWN", mNumPlanes |-> 0, mWidth |-> 0, mHeight |-> 0,
     mBitDepth |-> 0, mBitDepthAllocated |-> 0,
     mPlane |-> [i \in 0..3 |-> ImgPlane(0, 0, 0, 0, 0)]]

\* the MediaImage2 of new ABuffer(sizeof(MediaImage2)) before the memset:
\* nothing has been stored in it, and the converter never reads it
UninitImage == [ZeroImage EXCEPT !.mType = "uninitialized"]

----------------------------------------------------------------------------
(* GraphicView2MediaImageConverter::GraphicView2MediaImageConverter        *)

\* yuv420888 of the constructor's TYPE_YUV case
yuv420888(layout) ==
    LET yPlane == layout.planes[PLANE_Y]
        uPlane == layout.planes[PLANE_U]
        vPlane == layout.planes[PLANE_V]
    IN  /\ yPlane.rowSampling = 1 /\ yPlane.colSampling = 1
        /\ uPlane.rowSampling = 2 /\ uPlane.colSampling = 2
        /\ vPlane.rowSampling = 2 /\ vPlane.colSampling = 2
        /\ \A i \in 0..2 : layout.planes[i].allocatedDepth = 8
                           /\ layout.planes[i].bitDepth = 8
        /\ yPlane.colInc = 1 /\ uPlane.rowInc = vPlane.rowInc

\* copyFormat of the constructor's TYPE_YUV case
copyFormat(layout, mClientColorFormat) ==
    LET yPlane == layout.planes[PLANE_Y]
        uPlane == layout.planes[PLANE_U]
        vPlane == layout.planes[PLANE_V]
    IN  IF yuv420888(layout) /\ mClientColorFormat = "YUV420Flexible"
        THEN IF uPlane.colInc = 2 /\ vPlane.colInc = 2
                /\ yPlane.rowInc = uPlane.rowInc
             THEN "YUV420PackedSemiPlanar"
             ELSE IF uPlane.colInc = 1 /\ vPlane.colInc = 1
                     /\ yPlane.rowInc = uPlane.rowInc * 2
                  THEN "YUV420PackedPlanar"
                  ELSE mClientColorFormat
        ELSE mClientColorFormat

PlanarFormats == {"YUV420Flexible", "YUV420Planar", "YUV420PackedPlanar"}
SemiPlanarFormats == {"YUV420SemiPlanar", "YUV420PackedSemiPlanar"}

\* the media image planes the TYPE_YUV case lays out for copyFormat cf
YuvImagePlanes(layout, cf, stride, vStride, mAllocatedDepth) ==
    LET yPlane == layout.planes[PLANE_Y]
        uPlane == layout.planes[PLANE_U]
        vPlane == layout.planes[PLANE_V]
        none == ImgPlane(0, 0, 0, 0, 0)
    IN  IF cf \in PlanarFormats
        THEN <<ImgPlane(0, 1, stride, 1, 1),
               ImgPlane(stride * vStride, 1, stride \div 2, 2, 2),
               ImgPlane((stride * vStride * 5) \div 4, 1, stride \div 2, 2, 2),
               none>>
        ELSE IF cf \in SemiPlanarFormats
        THEN <<ImgPlane(0, 1, stride, 1, 1),
               ImgPlane(stride * vStride, 2, stride, 2, 2),
               ImgPlane(stride * vStride + 1, 2, stride, 2, 2),
               none>>
        ELSE IF cf = "YUVP010"
        THEN <<ImgPlane(0, 2, stride, 1, 1),
               ImgPlane(stride * vStride, 4, stride, 2, 2),
               ImgPlane(stride * vStride + 2, 4, stride, 2, 2),
               none>>
        ELSE LET colInc == divUp(mAllocatedDepth, 8)
                 rowIncY == (stride * colInc) \div yPlane.colSampling
                 offsetU == (rowIncY * vStride) \div yPlane.rowSampling
                 rowIncU == (stride * colInc) \div uPlane.colSampling
                 offsetV == offsetU + (rowIncU * vStride) \div uPlane.rowSampling
                 rowIncV == (stride * colInc) \div vPlane.colSampling
             IN  <<ImgPlane(0, colInc, rowIncY,
                            yPlane.colSampling, yPlane.rowSampling),
                   ImgPlane(offsetU, colInc, rowIncU,
                            uPlane.colSampling, uPlane.rowSampling),
                   ImgPlane(offsetV, colInc, rowIncV,
                            vPlane.colSampling, vPlane.rowSampling),
                   none>>

\* tryWrapping at the end of the TYPE_YUV case, given its value before
YuvTryWrapping(view, mClientColorFormat, cf, tryWrapping) ==
    LET layout == view.layout
        yPlane == layout.planes[PLANE_Y]
        uPlane == layout.planes[PLANE_U]
        vPlane == layout.planes[PLANE_V]
    IN  IF cf \in PlanarFormats
        THEN IF tryWrapping /\ mClientColorFormat # "YUV420Flexible"
             THEN /\ yuv420888(layout)
                  /\ uPlane.colInc = 1 /\ vPlane.colInc = 1
                  /\ yPlane.rowInc = uPlane.rowInc * 2
                  /\ view.data[0] < view.data[1]
                  /\ view.data[1] < view.data[2]
             ELSE tryWrapping
        ELSE IF cf \in SemiPlanarFormats
        THEN IF tryWrapping /\ mClientColorFormat # "YUV420Flexible"
             THEN /\ yuv420888(layout)
                  /\ uPlane.colInc = 2 /\ vPlane.colInc = 2
                  /\ yPlane.rowInc = uPlane.rowInc
                  /\ view.data[0] < view.data[1]
                  /\ view.data[1] < view.data[2]
             ELSE tryWrapping
        ELSE IF cf = "YUVP010"
        THEN IF tryWrapping
             THEN /\ \A i \in 0..2 : /\ layout.planes[i].allocatedDepth = 16
                                     /\ layout.planes[i].bitDepth = 10
                                     /\ layout.planes[i].rightShift = 6
                  /\ yPlane.rowSampling = 1 /\ yPlane.colSampling = 1
                  /\ uPlane.rowSampling = 2 /\ uPlane.colSampling = 2
                  /\ vPlane.rowSampling = 2 /\ vPlane.colSampling = 2
                  /\ yPlane.colInc = 2
                  /\ uPlane.colInc = 4
                  /\ vPlane.colInc = 4
                  /\ yPlane.rowInc = uPlane.rowInc
                  /\ yPlane.rowInc = vPlane.rowInc
             ELSE tryWrapping
        ELSE tryWrapping

\* Lines 831-1118, the switch on layout.type: the status ("go" when the
\* constructor goes on), the media image so far and tryWrapping.
TypeSwitch(view, mClientColorFormat, tryWrapping0) ==
    LET layout == view.layout
        mAllocatedDepth == layout.planes[0].allocatedDepth
        bitDepth == layout.planes[0].bitDepth
        stride == align(view.width, 2) * divUp(layout.planes[0].allocatedDepth, 8)
        vStride == align(view.height, 2)
        tryWrapping == tryWrapping0
        Out(st, img, tw) == [status |-> st, image |-> img, tryWrapping |-> tw]
    IN  CASE layout.type = "YUV" ->
               LET img == [ZeroImage EXCEPT !.mType = "YUV"]
                   cbd == clientBitDepth(mClientColorFormat)
               IN  IF layout.numPlanes # 3 THEN Out(BAD_VALUE, img, tryWrapping)
                   ELSE IF cbd # {} /\ bitDepth \notin cbd
                   THEN Out(BAD_VALUE, img, tryWrapping)
                   ELSE IF \/ layout.planes[PLANE_Y].channel # "Y"
                           \/ layout.planes[PLANE_U].channel # "CB"
                           \/ layout.planes[PLANE_V].channel # "CR"
                   THEN Out(BAD_VALUE, img, tryWrapping)
                   ELSE LET cf == copyFormat(layout, mClientColorFormat)
                            pl == YuvImagePlanes(layout, cf, stride, vStride,
                                                 mAllocatedDepth)
                        IN  Out("go",
                                [img EXCEPT !.mPlane = [i \in 0..3 |-> pl[i + 1]]],
                                YuvTryWrapping(view, mClientColorFormat, cf,
                                               tryWrapping))
          [] layout.type = "YUVA" -> Out(NO_INIT, ZeroImage, tryWrapping)
          [] layout.type = "RGB" ->
               LET img == [ZeroImage EXCEPT !.mType = "RGB"]
               IN  IF mClientColorFormat \notin RgbFormats
                   THEN Out(BAD_VALUE, img, tryWrapping)
                   ELSE IF layout.numPlanes # 3
                   THEN Out(BAD_VALUE, img, tryWrapping)
                   ELSE Out("go", img, tryWrapping)
          [] layout.type = "RGBA" ->
               LET img == [ZeroImage EXCEPT !.mType = "RGBA"]
               IN  IF mClientColorFormat \notin RgbaFormats
                   THEN Out(BAD_VALUE, img, tryWrapping)
                   ELSE IF layout.numPlanes # 4
                   THEN Out(BAD_VALUE, img, tryWrapping)
                   ELSE Out("go", img, tryWrapping)
          [] OTHER ->
               LET img == [ZeroImage EXCEPT !.mType = "UNKNOWN"]
               IN  IF layout.numPlanes = 1
                   THEN LET plane == layout.planes[0]
                        IN  Out("go",
                                [img EXCEPT !.mPlane[0] =
                                    ImgPlane(0, Abs(plane.colInc), Abs(plane.rowInc),
                                             plane.colSampling, plane.rowSampling)],
                                IF plane.colInc < 0 \/ plane.rowInc < 0
                                THEN FALSE ELSE tryWrapping)
                   ELSE Out(NO_INIT, img, tryWrapping)

SetMin(S) == CHOOSE x \in S : \A y \in S : x <= y
SetMax(S) == CHOOSE x \in S : \A y \in S : y <= x

RECURSIVE SumTo(_, _)
\* f[0] + ... + f[n - 1]
SumTo(f, n) == IF n = 0 THEN 0 ELSE SumTo(f, n - 1) + f[n - 1]

\* Lines 1121-1139: minPtr, maxPtr and planeSize of the wrapping attempt
WrapExtent(view, mAllocatedDepth) ==
    LET layout == view.layout
        P == 0..(layout.numPlanes - 1)
        w(i) == view.width \div layout.planes[i].colSampling
        h(i) == view.height \div layout.planes[i].rowSampling
        planeStride(i) == Abs(layout.planes[i].rowInc) \div Abs(layout.planes[i].colInc)
    IN  [minPtr |-> SetMin({view.data[0]} \cup
                    {view.data[i] + minOffset(layout.planes[i], w(i), h(i)) : i \in P}),
         maxPtr |-> SetMax({view.data[0]} \cup
                    {view.data[i] + maxOffset(layout.planes[i], w(i), h(i)) : i \in P}),
         planeSize |-> SumTo([i \in P |->
                    (planeStride(i) * divUp(mAllocatedDepth, 8) * align(view.height, 64))
                        \div layout.planes[i].rowSampling], layout.numPlanes)]

\* the wrapping test without its minPtr == mView.data()[0] condition
WrapFits_AnyMinPtr(view, ext) ==
    (ext.maxPtr - ext.minPtr) <= ext.planeSize

\* Line 1141: the planes are near one another, so the view is wrapped
WrapFits(view, ext) ==
    ext.minPtr = view.data[0] /\ (ext.maxPtr - ext.minPtr) <= ext.planeSize

\* Lines 1145-1152: the media image planes of a wrapped view
WrappedPlanes(view, ext, mPlane) ==
    [i \in 0..3 |->
        IF i < view.layout.numPlanes
        THEN ImgPlane(view.data[i] - ext.minPtr,
                      view.layout.planes[i].colInc, view.layout.planes[i].rowInc,
                      view.layout.planes[i].colSampling,
                      view.layout.planes[i].rowSampling)
        ELSE mPlane[i]]

\* the per-plane validation without its endianness check
PlaneUnsupported_NoEndianness(plane, mAllocatedDepth, bitDepth) ==
    \/ plane.allocatedDepth < plane.bitDepth
    \/ plane.rightShift # plane.allocatedDepth - plane.bitDepth
    \/ plane.allocatedDepth # mAllocatedDepth
    \/ plane.bitDepth # bitDepth

\* Lines 1166-1181: a plane the per-plane validation rejects
PlaneUnsupported(plane, mAllocatedDepth, bitDepth) ==
    \/ plane.allocatedDepth < plane.bitDepth
    \/ plane.rightShift # plane.allocatedDepth - plane.bitDepth
    \/ (plane.allocatedDepth > 8 /\ plane.endianness # "NATIVE")
    \/ plane.allocatedDepth # mAllocatedDepth
    \/ plane.bitDepth # bitDepth

\* Lines 1163-1184: bufferSize when every plane passes
BufferSize(view) ==
    LET layout == view.layout
        stride == align(view.width, 2) * divUp(layout.planes[0].allocatedDepth, 8)
        vStride == align(view.height, 2)
    IN  SumTo([i \in 0..(layout.numPlanes - 1) |->
                  ((stride * vStride) \div layout.planes[i].rowSampling)
                      \div layout.planes[i].colSampling],
              layout.numPlanes)

\* tryWrapping that ignores the copy argument
InitialTryWrapping_Always(copy) == TRUE

\* tryWrapping = !copy
InitialTryWrapping(copy) == ~copy

\* The converter the constructor leaves: its member fields.  mView is the
\* view; mBackBuffer is default-constructed (null).
Construct(view, format, copy) ==
    LET mClientColorFormat ==
            IF format = "absent" THEN "YUV420Flexible" ELSE format
        Members(st, depth, wrapped, size, img) ==
            [mInitCheck |-> st, mView |-> view,
             mWidth |-> view.width, mHeight |-> view.height,
             mClientColorFormat |-> mClientColorFormat,
             mWrapped |-> wrapped, mAllocatedDepth |-> depth,
             mBackBufferSize |-> size, mMediaImage |-> img,
             mBackBuffer |-> NULL]
    IN  IF view.error # C2_OK
        THEN Members(BAD_VALUE, 0, NULL, 0, UninitImage)
        ELSE IF view.layout.numPlanes = 0
        THEN Members(BAD_VALUE, 0, NULL, 0, UninitImage)
        ELSE
        LET layout == view.layout
            mAllocatedDepth == layout.planes[0].allocatedDepth
            bitDepth == layout.planes[0].bitDepth
            sw == TypeSwitch(view, mClientColorFormat, InitialTryWrapping(copy))
        IN  IF sw.status # "go"
            THEN Members(sw.status, mAllocatedDepth, NULL, 0, sw.image)
            ELSE
            LET ext == WrapExtent(view, mAllocatedDepth)
                wraps == sw.tryWrapping /\ WrapFits(view, ext)
                mWrapped == IF wraps
                            THEN [id |-> "wrapped", base |-> ext.minPtr,
                                  capacity |-> ext.maxPtr - ext.minPtr]
                            ELSE NULL
                img1 == IF wraps
                        THEN [sw.image EXCEPT
                                !.mPlane = WrappedPlanes(view, ext, sw.image.mPlane)]
                        ELSE sw.image
                img2 == [img1 EXCEPT !.mNumPlanes = layout.numPlanes,
                                     !.mWidth = view.width,
                                     !.mHeight = view.height,
                                     !.mBitDepth = bitDepth,
                                     !.mBitDepthAllocated = mAllocatedDepth]
            IN  IF \E i \in 0..(layout.numPlanes - 1) :
                       PlaneUnsupported(layout.planes[i], mAllocatedDepth, bitDepth)
                THEN Members(BAD_VALUE, mAllocatedDepth, mWrapped, 0, img2)
                ELSE Members(OK, mAllocatedDepth, mWrapped, BufferSize(view), img2)

----------------------------------------------------------------------------
(* The layout classifiers and ImageCopy (view -> media image).             *)

\* bool IsYUV420(const C2GraphicView &view), on the view's layout
IsYUV420View(layout) ==
    /\ layout.numPlanes = 3
    /\ layout.type = "YUV"
    /\ layout.planes[PLANE_Y].channel = "Y"
    /\ layout.planes[PLANE_Y].colSampling = 1
    /\ layout.planes[PLANE_Y].rowSampling = 1
    /\ layout.planes[PLANE_U].channel = "CB"
    /\ layout.planes[PLANE_U].colSampling = 2
    /\ layout.planes[PLANE_U].rowSampling = 2
    /\ layout.planes[PLANE_V].channel = "CR"
    /\ layout.planes[PLANE_V].colSampling = 2
    /\ layout.planes[PLANE_V].rowSampling = 2
    /\ \A i \in 0..2 : /\ layout.planes[i].allocatedDepth = 8
                       /\ layout.planes[i].bitDepth = 8
                       /\ layout.planes[i].rightShift = 0

\* bool IsNV12(const C2GraphicView &view)
IsNV12View(layout) ==
    /\ IsYUV420View(layout)
    /\ layout.rootPlanes = 2
    /\ layout.planes[PLANE_U].colInc = 2
    /\ layout.planes[PLANE_U].rootIx = PLANE_U
    /\ layout.planes[PLANE_U].offset = 0
    /\ layout.planes[PLANE_V].colInc = 2
    /\ layout.planes[PLANE_V].rootIx = PLANE_U
    /\ layout.planes[PLANE_V].offset = 1

\* IsNV21 of a view without its tests of where the chroma planes lie
IsNV21View_AnyRoot(layout) ==
    /\ IsYUV420View(layout)
    /\ layout.rootPlanes = 2
    /\ layout.planes[PLANE_U].colInc = 2
    /\ layout.planes[PLANE_V].colInc = 2

\* bool IsNV21(const C2GraphicView &view)
IsNV21View(layout) ==
    /\ IsYUV420View(layout)
    /\ layout.rootPlanes = 2
    /\ layout.planes[PLANE_U].colInc = 2
    /\ layout.planes[PLANE_U].rootIx = PLANE_V
    /\ layout.planes[PLANE_U].offset = 1
    /\ layout.planes[PLANE_V].colInc = 2
    /\ layout.planes[PLANE_V].rootIx = PLANE_V
    /\ layout.planes[PLANE_V].offset = 0

\* bool IsI420(const C2GraphicView &view)
IsI420View(layout) ==
    /\ IsYUV420View(layout)
    /\ layout.rootPlanes = 3
    /\ layout.planes[PLANE_U].colInc = 1
    /\ layout.planes[PLANE_U].rootIx = PLANE_U
    /\ layout.planes[PLANE_U].offset = 0
    /\ layout.planes[PLANE_V].colInc = 1
    /\ layout.planes[PLANE_V].rootIx = PLANE_V
    /\ layout.planes[PLANE_V].offset = 0

\* bool IsYUV420_10bit(const C2GraphicView &view)
IsYUV420_10bitView(layout) ==
    /\ layout.numPlanes = 3
    /\ layout.type = "YUV"
    /\ layout.planes[PLANE_Y].channel = "Y"
    /\ layout.planes[PLANE_Y].colSampling = 1
    /\ layout.planes[PLANE_Y].rowSampling = 1
    /\ layout.planes[PLANE_U].channel = "CB"
    /\ layout.planes[PLANE_U].colSampling = 2
    /\ layout.planes[PLANE_U].rowSampling = 2
    /\ layout.planes[PLANE_V].channel = "CR"
    /\ layout.planes[PLANE_V].colSampling = 2
    /\ layout.planes[PLANE_V].rowSampling = 2
    /\ \A i \in 0..2 : /\ layout.planes[i].allocatedDepth = 16
                       /\ layout.planes[i].bitDepth = 10

\* bool IsP010(const C2GraphicView &view)
IsP010View(layout) ==
    /\ IsYUV420_10bitView(layout)
    /\ layout.rootPlanes = 2
    /\ layout.planes[PLANE_U].colInc = 4
    /\ layout.planes[PLANE_U].rootIx = PLANE_U
    /\ layout.planes[PLANE_U].offset = 0
    /\ layout.planes[PLANE_V].colInc = 4
    /\ layout.planes[PLANE_V].rootIx = PLANE_U
    /\ layout.planes[PLANE_V].offset = 2
    /\ \A i \in 0..2 : layout.planes[i].rightShift = 6

\* bool IsYUV420(const MediaImage2 *img)
IsYUV420Img(img) ==
    /\ img.mType = "YUV"
    /\ img.mNumPlanes = 3
    /\ img.mBitDepth = 8
    /\ img.mBitDepthAllocated = 8
    /\ img.mPlane[0].mHorizSubsampling = 1
    /\ img.mPlane[0].mVertSubsampling = 1
    /\ img.mPlane[1].mHorizSubsampling = 2
    /\ img.mPlane[1].mVertSubsampling = 2
    /\ img.mPlane[2].mHorizSubsampling = 2
    /\ img.mPlane[2].mVertSubsampling = 2

\* bool IsNV12(const MediaImage2 *img)
IsNV12Img(img) ==
    /\ IsYUV420Img(img)
    /\ img.mPlane[1].mColInc = 2
    /\ img.mPlane[2].mColInc = 2
    /\ img.mPlane[2].mOffset = img.mPlane[1].mOffset + 1

\* bool IsNV21(const MediaImage2 *img)
IsNV21Img(img) ==
    /\ IsYUV420Img(img)
    /\ img.mPlane[1].mColInc = 2
    /\ img.mPlane[2].mColInc = 2
    /\ img.mPlane[1].mOffset = img.mPlane[2].mOffset + 1

\* bool IsI420(const MediaImage2 *img)
IsI420Img(img) ==
    /\ IsYUV420Img(img)
    /\ img.mPlane[1].mColInc = 1
    /\ img.mPlane[2].mColInc = 1
    /\ img.mPlane[2].mOffset > img.mPlane[1].mOffset

\* ImageCopy takes one of its libyuv routines, which copy every plane and
\* return 0 for the non-null planes and positive sizes it is called on
FastPath(layout, img) ==
    /\ IsNV12View(layout) \/ IsNV21View(layout) \/ IsI420View(layout)
    /\ IsNV12Img(img) \/ IsNV21Img(img) \/ IsI420Img(img)

\* _ImageCopy: plane i of the view cannot be copied to or from the image
PlaneIncompatible(plane, img, i) ==
    LET bpp == divUp(img.mBitDepthAllocated, 8)
    IN  \/ plane.colSampling # img.mPlane[i].mHorizSubsampling
        \/ plane.rowSampling # img.mPlane[i].mVertSubsampling
        \/ plane.allocatedDepth # img.mBitDepthAllocated
        \/ plane.allocatedDepth < plane.bitDepth
        \/ plane.rightShift # plane.allocatedDepth - plane.bitDepth
        \/ (bpp > 1 /\ plane.endianness # "NATIVE")

\* _ImageCopy: the planes are copied in order up to the first incompatible
\* one; the status and the number of planes copied
GenericCopy(layout, img) ==
    LET bad == {i \in 0..(layout.numPlanes - 1) :
                    PlaneIncompatible(layout.planes[i], img, i)}
    IN  IF bad = {}
        THEN [status |-> OK, copied |-> layout.numPlanes]
        ELSE [status |-> BAD_VALUE, copied |-> SetMin(bad)]

\* status_t ImageCopy(uint8_t *imgBase, const MediaImage2 *img,
\*                    const C2GraphicView &view)
\* imgBase is an ABuffer (or NULL), img a MediaImage2 (or NULL)
ImageCopy(imgBase, img, view) ==
    IF \/ img = NULL
       \/ imgBase = NULL
       \/ view.width # img.mWidth
       \/ view.height # img.mHeight
    THEN [status |-> BAD_VALUE, copied |-> 0]
    ELSE IF FastPath(view.layout, img)
    THEN [status |-> OK, copied |-> 3]
    ELSE GenericCopy(view.layout, img)

----------------------------------------------------------------------------
(* The views and formats the converter is constructed on.                  *)

\* a C2PlaneInfo
PlaneInfo(ch, colInc, rowInc, colS, rowS, alloc, bits, shift, rootIx, offset) ==
    [channel |-> ch, colInc |-> colInc, rowInc |-> rowInc,
     colSampling |-> colS, rowSampling |-> rowS,
     allocatedDepth |-> alloc, bitDepth |-> bits, rightShift |-> shift,
     endianness |-> "NATIVE", rootIx |-> rootIx, offset |-> offset]

Layout(type, rootPlanes, planes) ==
    [type |-> type, numPlanes |-> Len(planes), rootPlanes |-> rootPlanes,
     planes |-> [i \in 0..(Len(planes) - 1) |-> planes[i + 1]]]

\* The layouts gralloc and the software codecs produce for a w x h buffer,
\* with the distance of each plane's data pointer from the buffer's start.
BaseLayouts(w, h) ==
    LET s == align(w, 2)
        v == align(h, 2)
    IN  { [name |-> "NV12", rel |-> <<0, s * v, s * v + 1>>,
           layout |-> Layout("YUV", 2,
              <<PlaneInfo("Y", 1, s, 1, 1, 8, 8, 0, 0, 0),
                PlaneInfo("CB", 2, s, 2, 2, 8, 8, 0, 1, 0),
                PlaneInfo("CR", 2, s, 2, 2, 8, 8, 0, 1, 1)>>)],
          [name |-> "NV21", rel |-> <<0, s * v + 1, s * v>>,
           layout |-> Layout("YUV", 2,
              <<PlaneInfo("Y", 1, s, 1, 1, 8, 8, 0, 0, 0),
                PlaneInfo("CB", 2, s, 2, 2, 8, 8, 0, 2, 1),
                PlaneInfo("CR", 2, s, 2, 2, 8, 8, 0, 2, 0)>>)],
          [name |-> "I420", rel |-> <<0, s * v, s * v + (s \div 2) * (v \div 2)>>,
           layout |-> Layout("YUV", 3,
              <<PlaneInfo("Y", 1, s, 1, 1, 8, 8, 0, 0, 0),
                PlaneInfo("CB", 1, s \div 2, 2, 2, 8, 8, 0, 1, 0),
                PlaneInfo("CR", 1, s \div 2, 2, 2, 8, 8, 0, 2, 0)>>)],
          [name |-> "P010", rel |-> <<0, 2 * s * v, 2 * s * v + 2>>,
           layout |-> Layout("YUV", 2,
              <<PlaneInfo("Y", 2, 2 * s, 1, 1, 16, 10, 6, 0, 0),
                PlaneInfo("CB", 4, 2 * s, 2, 2, 16, 10, 6, 1, 0),
                PlaneInfo("CR", 4, 2 * s, 2, 2, 16, 10, 6, 1, 2)>>)],
          [name |-> "YUVA", rel |-> <<0, s * v, s * v + 1, 2 * s * v>>,
           layout |-> Layout("YUVA", 3,
              <<PlaneInfo("Y", 1, s, 1, 1, 8, 8, 0, 0, 0),
                PlaneInfo("CB", 2, s, 2, 2, 8, 8, 0, 1, 0),
                PlaneInfo("CR", 2, s, 2, 2, 8, 8, 0, 1, 1),
                PlaneInfo("A", 1, s, 1, 1, 8, 8, 0, 3, 0)>>)],
          [name |-> "RGB", rel |-> <<0, 1, 2>>,
           layout |-> Layout("RGB", 1,
              <<PlaneInfo("R", 3, 3 * w, 1, 1, 8, 8, 0, 0, 0),
                PlaneInfo("G", 3, 3 * w, 1, 1, 8, 8, 0, 0, 1),
                PlaneInfo("B", 3, 3 * w, 1, 1, 8, 8, 0, 0, 2)>>)],
          [name |-> "RGBA", rel |-> <<0, 1, 2, 3>>,
           layout |-> Layout("RGBA", 1,
              <<PlaneInfo("R", 4, 4 * w, 1, 1, 8, 8, 0, 0, 0),
                PlaneInfo("G", 4, 4 * w, 1, 1, 8, 8, 0, 0, 1),
                PlaneInfo("B", 4, 4 * w, 1, 1, 8, 8, 0, 0, 2),
                PlaneInfo("A", 4, 4 * w, 1, 1, 8, 8, 0, 0, 3)>>)],
          [name |-> "RAW", rel |-> <<0>>,
           layout |-> Layout("UNKNOWN", 1,
              <<PlaneInfo("Y", 1, w, 1, 1, 8, 8, 0, 0, 0)>>)] }

\* (allocatedDepth, bitDepth, rightShift) of a plane: 8-bit, P010, 16-bit,
\* 8 bits in the low byte of 16, more bits than allocated, LSB-aligned 10 bits
Depths == {<<8, 8, 0>>, <<16, 10, 6>>, <<16, 16, 0>>, <<16, 8, 8>>,
           <<8, 10, 0>>, <<16, 10, 0>>}

\* a plane with its geometry changed: a stride or a subsampling factor
PlaneGeometryVariants(pl) ==
    {[pl EXCEPT !.colInc = c] : c \in {-pl.colInc, 1, 2}}
    \cup {[pl EXCEPT !.rowInc = r] : r \in {-pl.rowInc, pl.rowInc + 2}}
    \cup {[pl EXCEPT !.colSampling = 3 - pl.colSampling],
          [pl EXCEPT !.rowSampling = 3 - pl.rowSampling]}

\* a plane with its channel, its depths or its endianness changed
PlaneSampleVariants(pl) ==
    {[pl EXCEPT !.channel = c] : c \in {"Y", "CB", "CR"}}
    \cup {[pl EXCEPT !.endianness = "BIG"]}
    \cup {[pl EXCEPT !.allocatedDepth = d[1], !.bitDepth = d[2],
                     !.rightShift = d[3]] : d \in Depths}

\* the layout with plane i replaced by each of variants[i], for each i
WithPlane(l, variants) ==
    {[l EXCEPT !.planes[ipv[1]] = ipv[2]] :
        ipv \in UNION {{i} \X variants[i] : i \in 0..(l.numPlanes - 1)}}

LayoutTypes == {"YUV", "YUVA", "RGB", "RGBA", "UNKNOWN"}

\* a layout as it is or with the geometry of one plane changed
GeometryVariants(l) ==
    {l} \cup WithPlane(l, [i \in 0..(l.numPlanes - 1) |->
                            PlaneGeometryVariants(l.planes[i])])

\* a layout with the samples of one plane changed, or of another type, or
\* with its last plane (or every plane) missing
ShapeVariants(l) ==
    WithPlane(l, [i \in 0..(l.numPlanes - 1) |->
                     PlaneSampleVariants(l.planes[i])])
    \cup {[l EXCEPT !.type = t] : t \in LayoutTypes}
    \cup {[l EXCEPT !.numPlanes = n,
                    !.planes = [i \in 0..(n - 1) |-> l.planes[i]]] :
            n \in {0, l.numPlanes - 1}}

\* where the planes of a buffer lie (data()[0] is at address 20000): one
\* after the other, the other planes 64 bytes further, far behind plane 0,
\* or before it
Placements == {"tight", "gap", "far", "before"}

Place(rel, placement) ==
    [i \in 0..(Len(rel) - 1) |->
        IF i = 0 THEN 20000
        ELSE CASE placement = "tight" -> 20000 + rel[i + 1]
               [] placement = "gap" -> 20064 + rel[i + 1]
               [] placement = "far" -> 30000 + rel[i + 1]
               [] OTHER -> 10000 + rel[i + 1]]

\* C2GraphicView: its error(), crop width()/height(), layout() and data()
View(e, w, h, l, data) ==
    [error |-> e, width |-> w, height |-> h, layout |-> l, data |-> data]

\* the views of crop width w and crop height h
ViewsOf(w, h) ==
    UNION { {View(C2_OK, w, h, l, Place(b.rel, p)) :
                l \in GeometryVariants(b.layout), p \in Placements}
            \cup {View(C2_OK, w, h, l, Place(b.rel, "tight")) :
                    l \in ShapeVariants(b.layout)}
            \cup {View(C2_CORRUPTED, w, h, b.layout, Place(b.rel, "tight"))}
            : b \in BaseLayouts(w, h) }

\* the views the converter is constructed on
Views == UNION { ViewsOf(w, MaxHeight) : w \in 1..MaxWidth }

\* the "color-format" entry of the format message, or "absent"
Formats == {"absent", "YUV420Planar", "YUV420SemiPlanar", "YUVP010",
            "YUV422Flexible", "RGBFlexible", "RGBAFlexible", "Surface",
            "16bitRGB565"}

----------------------------------------------------------------------------
(* The converter's methods, on one instance.                               *)

\* before the constructor has run
NoConv == [mInitCheck |-> "unconstructed"]

\* the ABuffers offered as backing buffers, by capacity()
BufCapacity == [small |-> 4, large |-> 64]
BufIds == DOMAIN BufCapacity
Buffers == {[id |-> b] : b \in BufIds}

\* ABuffer::capacity() of a buffer
capacity(buffer) ==
    IF "capacity" \in DOMAIN buffer THEN buffer.capacity
    ELSE BufCapacity[buffer.id]

\* wrap() that does not look at mBackBuffer
wrap_IgnoresBackBuffer(c) == c.mWrapped

\* sp<ABuffer> GraphicView2MediaImageConverter::wrap() const
wrap(c) == IF c.mBackBuffer = NULL THEN c.mWrapped ELSE NULL

\* setBackBuffer's checks with capacity() <= mBackBufferSize rejected
setBackBufferAccepts_Strict(c, backBuffer) ==
    ~(backBuffer = NULL) /\ ~(capacity(backBuffer) <= c.mBackBufferSize)

\* setBackBuffer's checks, made only on a converter that has not wrapped
setBackBufferAccepts_Unwrapped(c, backBuffer) ==
    /\ c.mWrapped = NULL
    /\ ~(backBuffer = NULL) /\ ~(capacity(backBuffer) < c.mBackBufferSize)

\* the checks of setBackBuffer(backBuffer)
setBackBufferAccepts(c, backBuffer) ==
    ~(backBuffer = NULL) /\ ~(capacity(backBuffer) < c.mBackBufferSize)

\* the process has died of a null dereference in copyToMediaImage()
Crashed == [op |-> "copyToMediaImage", val |-> "SIGSEGV"]

\* a converter has been constructed and the process lives
Alive == conv # NoConv /\ ret # Crashed

ConvInit ==
    /\ conv = NoConv
    /\ ctorArgs = NoConv
    /\ bufRange = [b \in BufIds |-> [offset |-> 0, size |-> BufCapacity[b]]]
    /\ bufWritten = [b \in BufIds |-> FALSE]
    /\ ret = [op |-> "none"]
    /\ adopted = FALSE

ConstructConverter ==
    /\ conv = NoConv
    /\ \E view \in Views, format \in Formats, copy \in BOOLEAN :
          /\ conv' = Construct(view, format, copy)
          /\ ctorArgs' = [format |-> format, copy |-> copy]
    /\ ret' = [op |-> "ctor"]
    /\ UNCHANGED <<bufRange, bufWritten, adopted>>
    /\ UNCHANGED exceptConv

CallWrap ==
    /\ Alive
    /\ ret' = [op |-> "wrap", val |-> wrap(conv)]
    /\ UNCHANGED <<conv, ctorArgs, bufRange, bufWritten, adopted>>
    /\ UNCHANGED exceptConv

CallSetBackBuffer ==
    /\ Alive
    /\ \E backBuffer \in Buffers \cup {NULL} :
          IF setBackBufferAccepts(conv, backBuffer)
          THEN /\ bufRange' = [bufRange EXCEPT ![backBuffer.id] =
                                  [offset |-> 0, size |-> conv.mBackBufferSize]]
               /\ conv' = [conv EXCEPT !.mBackBuffer = backBuffer]
               /\ ret' = [op |-> "setBackBuffer", arg |-> backBuffer, val |-> TRUE]
               /\ adopted' = TRUE
          ELSE /\ ret' = [op |-> "setBackBuffer", arg |-> backBuffer, val |-> FALSE]
               /\ UNCHANGED <<conv, bufRange, adopted>>
    /\ UNCHANGED <<ctorArgs, bufWritten>>
    /\ UNCHANGED exceptConv

\* uint32_t GraphicView2MediaImageConverter::backBufferSize() const
CallBackBufferSize ==
    /\ Alive
    /\ ret' = [op |-> "backBufferSize", val |-> conv.mBackBufferSize]
    /\ UNCHANGED <<conv, ctorArgs, bufRange, bufWritten, adopted>>
    /\ UNCHANGED exceptConv

\* copyToMediaImage's check, of NO_INIT only
InitFailed_OnlyNoInit(c) == c.mInitCheck = NO_INIT

\* the check copyToMediaImage() makes before it copies
InitFailed(c) == c.mInitCheck # OK

\* status_t GraphicView2MediaImageConverter::copyToMediaImage()
CallCopyToMediaImage ==
    /\ Alive
    /\ IF InitFailed(conv)
       THEN /\ ret' = [op |-> "copyToMediaImage", val |-> conv.mInitCheck]
            /\ UNCHANGED bufWritten
       ELSE IF conv.mBackBuffer = NULL
       THEN \* mBackBuffer->base() on a null sp<ABuffer>
            /\ ret' = Crashed
            /\ UNCHANGED bufWritten
       ELSE LET r == ImageCopy(conv.mBackBuffer, conv.mMediaImage, conv.mView)
            IN  /\ ret' = [op |-> "copyToMediaImage", val |-> r.status]
                /\ bufWritten' = [bufWritten EXCEPT ![conv.mBackBuffer.id] =
                                      @ \/ r.copied > 0]
    /\ UNCHANGED <<conv, ctorArgs, bufRange, adopted>>
    /\ UNCHANGED exceptConv

ConvNext ==
    \/ ConstructConverter
    \/ CallWrap
    \/ CallSetBackBuffer
    \/ CallBackBufferSize
    \/ CallCopyToMediaImage

----------------------------------------------------------------------------
(* MemoryBlockPoolImpl and MemoryBlockPool::fetch.  A block is the         *)
(* MemoryBlockPoolBlock of the id-th allocation, with its size.            *)

Sizes == 0..MaxSize

\* MemoryBlockPoolBlock(size): mData(new uint8_t[size]), mSize(mData ? size : 0)
NewBlock(id, size) == [id |-> id, mSize |-> size]

\* fetch's remove_if that removes nothing
RemoveOtherSizes_None(blocks, size) == blocks

\* mFreeBlocks after remove_if(block.size() != size)
RemoveOtherSizes(blocks, size) ==
    SelectSeq(blocks, LAMBDA block : ~(block.mSize # size))

\* the sequence without its element at index i
RemoveAt(seq, i) == SubSeq(seq, 1, i - 1) \o SubSeq(seq, i + 1, Len(seq))

\* release that discards every block
ReleaseKeeps_Never(block, currentSize) == FALSE

\* release that returns every block to the free blocks
ReleaseKeeps_Always(block, currentSize) == TRUE

\* release(block) returns the block to the free blocks
ReleaseKeeps(block, currentSize) == block.mSize = currentSize

PoolInit ==
    /\ mFreeBlocks = <<>>
    /\ mBlocksInUse = <<>>
    /\ mCurrentSize = 0
    /\ allocCount = 0
    /\ poolLog = <<>>

\* a pool that keeps the free blocks of every size and fetches the first
\* free block of the requested size
Fetch_KeepAllSizes ==
    /\ Len(poolLog) < MaxPoolOps
    /\ \E size \in Sizes :
          LET fits == {i \in 1..Len(mFreeBlocks) : mFreeBlocks[i].mSize = size}
              fresh == fits = {}
              at == IF fresh THEN 0 ELSE SetMin(fits)
              block == IF fresh THEN NewBlock(allocCount + 1, size)
                       ELSE mFreeBlocks[at]
          IN  /\ mCurrentSize' = size
              /\ mBlocksInUse' = <<block>> \o mBlocksInUse
              /\ mFreeBlocks' = IF fresh THEN mFreeBlocks
                                ELSE RemoveAt(mFreeBlocks, at)
              /\ allocCount' = IF fresh THEN allocCount + 1 ELSE allocCount
              /\ poolLog' = Append(poolLog,
                    [op |-> "fetch", size |-> size, block |-> block,
                     fresh |-> fresh])
    /\ UNCHANGED exceptPool

\* MemoryBlockPool::fetch(size) -> MemoryBlockPoolImpl::fetch(size); the
\* MemoryBlock returned wraps mBlocksInUse.begin()
Fetch ==
    /\ Len(poolLog) < MaxPoolOps
    /\ \E size \in Sizes :
          LET free == RemoveOtherSizes(mFreeBlocks, size)
              fresh == free = <<>>
              block == IF fresh THEN NewBlock(allocCount + 1, size) ELSE Head(free)
          IN  /\ mCurrentSize' = size
              /\ mBlocksInUse' = <<block>> \o mBlocksInUse
              /\ mFreeBlocks' = IF fresh THEN free ELSE Tail(free)
              /\ allocCount' = IF fresh THEN allocCount + 1 ELSE allocCount
              /\ poolLog' = Append(poolLog,
                    [op |-> "fetch", size |-> size, block |-> block,
                     fresh |-> fresh])
    /\ UNCHANGED exceptPool

\* ~MemoryBlock::Impl() of the last reference to a fetched block ->
\* MemoryBlockPoolImpl::release(block)
Release ==
    /\ Len(poolLog) < MaxPoolOps
    /\ \E i \in 1..Len(mBlocksInUse) :
          LET block == mBlocksInUse[i]
          IN  /\ IF ReleaseKeeps(block, mCurrentSize)
                 THEN mFreeBlocks' = <<block>> \o mFreeBlocks
                 ELSE mFreeBlocks' = mFreeBlocks
              /\ mBlocksInUse' = RemoveAt(mBlocksInUse, i)
              /\ poolLog' = Append(poolLog, [op |-> "release", block |-> block])
    /\ UNCHANGED <<mCurrentSize, allocCount>>
    /\ UNCHANGED exceptPool

PoolNext ==
    \/ Fetch
    \/ Release

----------------------------------------------------------------------------
(* The Codec2Buffer variants.  A C2Buffer handed to a factory or to        *)
(* canCopy / copy is its data().type(), the number of its linear and of    *)
(* its graphic blocks, and what blocks[0] gives: its size() and the view   *)
(* (error, capacity) its map() returns, or the C2GraphicView of map().     *)

\* a C2Buffer
C2Buffer(type, linearBlocks, graphicBlocks, size, error, viewCapacity, view) ==
    [id |-> "C2Buffer", type |-> type, linearBlocks |-> linearBlocks,
     graphicBlocks |-> graphicBlocks, size |-> size, error |-> error,
     viewCapacity |-> viewCapacity, view |-> view]

\* the C2Buffers of linear type: without a block, with one block mapping
\* to a read view with an error or a size (the view may be larger than the
\* size the block was declared with), or with two blocks
LinearBuffers ==
    {C2Buffer("LINEAR", 0, 0, 0, C2_OK, 0, NULL),
     C2Buffer("LINEAR", 2, 0, 1, C2_OK, 1, NULL),
     C2Buffer("LINEAR", 1, 0, 1, C2_CORRUPTED, 1, NULL)}
    \cup {C2Buffer("LINEAR", 1, 0, size, C2_OK, size + more, NULL) :
            size \in 0..(MaxCapacity + 1), more \in {0, 2}}

\* the layouts of the views of the graphic blocks
BufferLayouts ==
    {b \in BaseLayouts(MaxWidth, MaxHeight) :
        b.name \in {"NV12", "I420", "RGBA"}}

\* the I420 layouts of which the U plane is subsampled in the rows only
RowSubsampled(l) ==
    {m \in GeometryVariants(l) :
        /\ \A i \in 0..(l.numPlanes - 1) :
              /\ m.planes[i].colInc = l.planes[i].colInc
              /\ m.planes[i].rowInc = l.planes[i].rowInc
        /\ m.planes[1].colSampling = 1
        /\ m.planes[1].rowSampling = 2}

\* the views the graphic blocks map to: NV12, I420 and RGBA layouts with
\* the planes one after the other, NV12 with the planes far apart, I420
\* with the U plane subsampled in the rows only, and a view with an error
BufferViews ==
    {View(C2_OK, MaxWidth, MaxHeight, b.layout, Place(b.rel, "tight")) :
        b \in BufferLayouts}
    \cup UNION { {View(C2_OK, MaxWidth, MaxHeight, b.layout,
                       Place(b.rel, "far")),
                  View(C2_CORRUPTED, MaxWidth, MaxHeight, b.layout,
                       Place(b.rel, "tight"))}
                 : b \in {x \in BufferLayouts : x.name = "NV12"} }
    \cup UNION { {View(C2_OK, MaxWidth, MaxHeight, l, Place(b.rel, "tight")) :
                    l \in RowSubsampled(b.layout)}
                 : b \in {x \in BufferLayouts : x.name = "I420"} }

\* the C2Buffers of graphic type: without a block, with one block mapping
\* to a view, or with two blocks
GraphicBuffers ==
    {C2Buffer("GRAPHIC", 0, 0, 0, C2_OK, 0, NULL)}
    \cup {C2Buffer("GRAPHIC", 0, 1, 0, view.error, 0, view) :
            view \in BufferViews}
    \cup {C2Buffer("GRAPHIC", 0, 2, 0, C2_OK, 0,
                   View(C2_OK, MaxWidth, MaxHeight, b.layout,
                        Place(b.rel, "tight"))) :
            b \in {x \in BufferLayouts : x.name = "NV12"}}

\* the buffers passed to the factories, to canCopy and to copy
C2Buffers == LinearBuffers \cup GraphicBuffers \cup {NULL}

\* the "color-format" of the format() message of a buffer
BufferFormats == {"absent", "YUV420Planar", "Surface"}

\* a Codec2Buffer: the variant, the ABuffer it is built on (base() is null
\* or not, capacity(), the range offset() and size()), the members of the
\* variant, and its history: the most bytes one memcpy wrote at base(),
\* whether clearC2BufferRefs() has been called ("cleared") and a buffer
\* been stored in mBufferRef since ("refilled"), and where the pixels at
\* base() and in mView come from
Codec2Buffer(kind, hasBase, cap, size, format, ref, view, img, wrapped) ==
    [kind |-> kind, hasBase |-> hasBase, capacity |-> cap,
     offset |-> 0, size |-> size, format |-> format,
     mBufferRef |-> ref, mView |-> view, mImageData |-> img,
     mWrapped |-> wrapped,
     written |-> 0, cleared |-> "never",
     basePixels |-> IF wrapped THEN "block" ELSE "client",
     viewPixels |-> "block"]

\* no Codec2Buffer has been made yet
NoBuffer == [kind |-> "none"]

\* the variants copying with canCopyLinear / copyLinear
LinearKinds == {"LocalLinearBuffer", "LinearBlockBuffer"}

\* the variants whose asC2Buffer() returns mBufferRef
RefKinds ==
    {"DummyContainerBuffer", "ConstLinearBlockBuffer", "ConstGraphicBlockBuffer"}

\* what a call returns: the call, its argument, its result, the status of
\* the plane copy it made ("none" when it made none), and, of a copy(),
\* whether the call before it was a canCopy() of the same buffer that
\* returned true
Returned(op, arg, val, status) ==
    [op |-> op, arg |-> arg, val |-> val, status |-> status,
     afterCanCopy |-> FALSE]

\* the sp<> a factory returns: the new Codec2Buffer
NewBuffer == [id |-> "Codec2Buffer"]

\* what the alloc callback of a factory returns for a size: nothing, a
\* buffer of that capacity or a buffer one byte short
AllocOutcomes == {"null", "exact", "short"}

alloc(size, outcome) ==
    IF outcome = "null" THEN NULL
    ELSE [id |-> "allocated",
          capacity |-> IF outcome = "short" /\ size > 0 THEN size - 1 ELSE size]

BufferInit ==
    /\ codec2Buffer = NoBuffer
    /\ bufferRet = Returned("none", NULL, NULL, "none")

\* a factory has made its Codec2Buffer, or has returned nullptr
Made(arg, made, status) ==
    /\ codec2Buffer = NoBuffer
    /\ IF made = NULL
       THEN /\ bufferRet' = Returned("Allocate", arg, NULL, status)
            /\ UNCHANGED codec2Buffer
       ELSE /\ bufferRet' = Returned("Allocate", arg, NewBuffer, status)
            /\ codec2Buffer' = made
    /\ UNCHANGED exceptBuffer

\* LocalLinearBuffer(format, buffer), on an ABuffer with or without memory
NewLocalLinearBuffer ==
    \E hasBase \in BOOLEAN, cap \in 0..MaxCapacity :
        /\ hasBase \/ cap = 0
        /\ Made(NULL,
                Codec2Buffer("LocalLinearBuffer", hasBase, cap, cap, "absent",
                             NULL, NULL, NULL, FALSE),
                "none")

\* LinearBlockBuffer::Allocate(format, block); the write view block->map()
\* gives has an error or a size
AllocateLinearBlockBuffer ==
    \E error \in {C2_OK, C2_CORRUPTED}, size \in 0..MaxCapacity :
        /\ codec2Buffer = NoBuffer
        /\ Made(NULL,
                IF error # C2_OK THEN NULL
                ELSE Codec2Buffer("LinearBlockBuffer", TRUE, size, size, "absent",
                                  NULL, NULL, NULL, FALSE),
                "none")

\* DummyContainerBuffer(format, buffer)
NewDummyContainerBuffer ==
    \E buffer \in C2Buffers :
        /\ codec2Buffer = NoBuffer
        /\ Made(buffer,
                Codec2Buffer("DummyContainerBuffer", TRUE, 1,
                             IF buffer # NULL THEN 1 ELSE 0, "absent",
                             buffer, NULL, NULL, FALSE),
                "none")

\* ConstLinearBlockBuffer::Allocate(format, buffer)
AllocateConstLinearBlockBuffer ==
    \E buffer \in C2Buffers :
        /\ codec2Buffer = NoBuffer
        /\ Made(buffer,
                IF \/ buffer = NULL
                   \/ buffer.type # "LINEAR"
                   \/ buffer.linearBlocks # 1
                THEN NULL
                ELSE IF buffer.error # C2_OK THEN NULL
                ELSE Codec2Buffer("ConstLinearBlockBuffer", TRUE,
                                  buffer.viewCapacity, buffer.viewCapacity,
                                  "absent", buffer, NULL, NULL, FALSE),
                "none")

\* GraphicBlockBuffer::Allocate from the construction of the converter on:
\* the Codec2Buffer returned, or NULL
GraphicBlockBufferOf(converter, view, format, outcome) ==
    LET wrapped == wrap(converter)
        buffer == alloc(converter.mBackBufferSize, outcome)
    IN  IF view.error # C2_OK THEN NULL
        ELSE IF converter.mInitCheck # OK THEN NULL
        ELSE IF wrapped # NULL
        THEN Codec2Buffer("GraphicBlockBuffer", TRUE,
                          capacity(wrapped), capacity(wrapped),
                          format, NULL, view, converter.mMediaImage, TRUE)
        ELSE IF ~setBackBufferAccepts(converter, buffer) THEN NULL
        ELSE Codec2Buffer("GraphicBlockBuffer", TRUE,
                          capacity(buffer), converter.mBackBufferSize,
                          format, NULL, view, converter.mMediaImage, FALSE)

\* GraphicBlockBuffer::Allocate(format, block, alloc); view is block->map()
AllocateGraphicBlockBuffer ==
    \E view \in BufferViews, format \in BufferFormats,
       outcome \in AllocOutcomes :
        /\ codec2Buffer = NoBuffer
        /\ Made(view,
                GraphicBlockBufferOf(Construct(view, format, FALSE), view,
                                     format, outcome),
                "none")

\* ConstGraphicBlockBuffer::Allocate from the construction of the converter
\* on: the Codec2Buffer returned, or NULL, and the status of the copy made
ConstGraphicBlockBufferOf(converter, buffer, format, outcome) ==
    LET view == buffer.view
        wrapped == wrap(converter)
        aBuffer == alloc(converter.mBackBufferSize, outcome)
        \* converter.copyToMediaImage(), after setBackBuffer(aBuffer)
        copied == ImageCopy(aBuffer, converter.mMediaImage, view)
    IN  IF converter.mInitCheck # OK
        THEN [made |-> NULL, status |-> "none"]
        ELSE IF wrapped # NULL
        THEN [made |-> Codec2Buffer("ConstGraphicBlockBuffer", TRUE,
                                    capacity(wrapped), capacity(wrapped),
                                    format, buffer, view,
                                    converter.mMediaImage, TRUE),
              status |-> "none"]
        ELSE IF ~setBackBufferAccepts(converter, aBuffer)
        THEN [made |-> NULL, status |-> "none"]
        ELSE [made |-> [Codec2Buffer("ConstGraphicBlockBuffer", TRUE,
                                     capacity(aBuffer),
                                     converter.mBackBufferSize,
                                     format, buffer, NULL,
                                     converter.mMediaImage, FALSE)
                           EXCEPT !.basePixels =
                               IF copied.status = OK THEN "source"
                               ELSE IF copied.copied > 0 THEN "partial"
                               ELSE @],
              status |-> copied.status]

\* what a factory returned, with the status of the copy it made
MadeWith(arg, r) == Made(arg, r.made, r.status)

\* ConstGraphicBlockBuffer::Allocate(format, buffer, alloc)
AllocateConstGraphicBlockBuffer ==
    \E buffer \in C2Buffers, format \in BufferFormats,
       outcome \in AllocOutcomes :
        IF \/ buffer = NULL
           \/ buffer.type # "GRAPHIC"
           \/ buffer.graphicBlocks # 1
        THEN Made(buffer, NULL, "none")
        ELSE MadeWith(buffer,
                      ConstGraphicBlockBufferOf(
                          Construct(buffer.view, format, FALSE),
                          buffer, format, outcome))

\* ConstGraphicBlockBuffer::AllocateEmpty(format, alloc); the format has
\* "width" and "height" or lacks them
AllocateEmptyConstGraphicBlockBuffer ==
    \E hasSize \in BOOLEAN, format \in BufferFormats,
       outcome \in AllocOutcomes :
        LET bpp == IF format = "YUVP010" THEN 24 ELSE 12
            aBuffer == alloc((align(MaxWidth, 16) * align(MaxHeight, 16) * bpp)
                                \div 8, outcome)
        IN  /\ codec2Buffer = NoBuffer
            /\ Made(NULL,
                    IF ~hasSize THEN NULL
                    ELSE IF aBuffer = NULL THEN NULL
                    ELSE Codec2Buffer("ConstGraphicBlockBuffer", TRUE,
                                      capacity(aBuffer), capacity(aBuffer),
                                      format, NULL, NULL, NULL, FALSE),
                    "none")

\* canCopyLinear refusing a block that fills the buffer
canCopyLinear_Strict(this, buffer) ==
    IF ~this.hasBase THEN FALSE
    ELSE IF buffer = NULL THEN TRUE
    ELSE IF buffer.type # "LINEAR" THEN FALSE
    ELSE IF buffer.linearBlocks = 0 THEN TRUE
    ELSE IF buffer.linearBlocks > 1 THEN FALSE
    ELSE IF buffer.size >= this.capacity THEN FALSE
    ELSE TRUE

\* bool Codec2Buffer::canCopyLinear(buffer) const
canCopyLinear(this, buffer) ==
    IF ~this.hasBase THEN FALSE
    ELSE IF buffer = NULL THEN TRUE
    ELSE IF buffer.type # "LINEAR" THEN FALSE
    ELSE IF buffer.linearBlocks = 0 THEN TRUE
    ELSE IF buffer.linearBlocks > 1 THEN FALSE
    ELSE IF buffer.size > this.capacity THEN FALSE
    ELSE TRUE

\* canCopy of ConstGraphicBlockBuffer without the comparison of
\* backBufferSize() with capacity()
imageFits_AnyCapacity(converter, this) ==
    IF converter.mInitCheck # OK THEN FALSE
    ELSE TRUE

\* ConstGraphicBlockBuffer::canCopy: the converter constructed on the view
\* of the buffer is valid and its image fits in the Codec2Buffer
imageFits(converter, this) ==
    IF converter.mInitCheck # OK THEN FALSE
    ELSE IF converter.mBackBufferSize > this.capacity THEN FALSE
    ELSE TRUE

\* ConstGraphicBlockBuffer::canCopy that looks at mWrapped only
canCopyConstGraphic_IgnoresRef(this, buffer) ==
    IF this.mWrapped THEN FALSE
    ELSE IF buffer = NULL THEN TRUE
    ELSE IF buffer.type # "GRAPHIC" THEN FALSE
    ELSE IF buffer.graphicBlocks = 0 THEN TRUE
    ELSE IF buffer.graphicBlocks # 1 THEN FALSE
    ELSE imageFits(Construct(buffer.view, this.format, TRUE), this)

\* bool ConstGraphicBlockBuffer::canCopy(buffer) const
canCopyConstGraphic(this, buffer) ==
    IF this.mWrapped \/ this.mBufferRef # NULL THEN FALSE
    ELSE IF buffer = NULL THEN TRUE
    ELSE IF buffer.type # "GRAPHIC" THEN FALSE
    ELSE IF buffer.graphicBlocks = 0 THEN TRUE
    ELSE IF buffer.graphicBlocks # 1 THEN FALSE
    ELSE imageFits(Construct(buffer.view, this.format, TRUE), this)

\* Codec2Buffer::canCopy(buffer), which ConstLinearBlockBuffer and
\* GraphicBlockBuffer inherit
canCopyDefault(this, buffer) == FALSE

\* canCopy(buffer) of each variant
canCopy(this, buffer) ==
    CASE this.kind \in LinearKinds -> canCopyLinear(this, buffer)
      [] this.kind = "DummyContainerBuffer" -> this.mBufferRef = NULL
      [] this.kind = "ConstGraphicBlockBuffer" ->
            canCopyConstGraphic(this, buffer)
      [] OTHER -> canCopyDefault(this, buffer)

\* what copy(), asC2Buffer() and clearC2BufferRefs() give: the result, the
\* Codec2Buffer after the call and the status of the plane copy made
Outcome(val, this, status) == [val |-> val, this |-> this, status |-> status]

\* MediaCodecBuffer::setRange(offset, size)
setRange(this, offset, size) ==
    [this EXCEPT !.offset = offset, !.size = size]

\* copyLinear relying on canCopyLinear: the mapped size is not compared
\* with capacity()
copyLinear_Unchecked(this, buffer) ==
    IF \/ buffer = NULL
       \/ buffer.linearBlocks = 0
       \/ buffer.size = 0
    THEN Outcome(TRUE, setRange(this, 0, 0), "none")
    ELSE IF buffer.error # C2_OK THEN Outcome(FALSE, this, "none")
    ELSE Outcome(TRUE,
                 [setRange(this, 0, buffer.viewCapacity) EXCEPT
                     !.written = IF @ < buffer.viewCapacity
                                 THEN buffer.viewCapacity ELSE @,
                     !.basePixels = "source"],
                 "none")

\* copyLinear setting the range to the mapped size before it compares the
\* mapped size with capacity()
copyLinear_RangeFirst(this, buffer) ==
    IF \/ buffer = NULL
       \/ buffer.linearBlocks = 0
       \/ buffer.size = 0
    THEN Outcome(TRUE, setRange(this, 0, 0), "none")
    ELSE IF buffer.error # C2_OK THEN Outcome(FALSE, this, "none")
    ELSE IF buffer.viewCapacity > this.capacity
    THEN Outcome(FALSE, setRange(this, 0, buffer.viewCapacity), "none")
    ELSE Outcome(TRUE,
                 [setRange(this, 0, buffer.viewCapacity) EXCEPT
                     !.written = IF @ < buffer.viewCapacity
                                 THEN buffer.viewCapacity ELSE @,
                     !.basePixels = "source"],
                 "none")

\* bool Codec2Buffer::copyLinear(buffer)
copyLinear(this, buffer) ==
    IF \/ buffer = NULL
       \/ buffer.linearBlocks = 0
       \/ buffer.size = 0
    THEN Outcome(TRUE, setRange(this, 0, 0), "none")
    ELSE IF buffer.error # C2_OK THEN Outcome(FALSE, this, "none")
    ELSE IF buffer.viewCapacity > this.capacity
    THEN Outcome(FALSE, this, "none")
    ELSE Outcome(TRUE,
                 [setRange(this, 0, buffer.viewCapacity) EXCEPT
                     !.written = IF @ < buffer.viewCapacity
                                 THEN buffer.viewCapacity ELSE @,
                     !.basePixels = "source"],
                 "none")

\* DummyContainerBuffer::copy that sets the size to 1 whatever the buffer
copyDummy_SizeOne(this, buffer) ==
    Outcome(TRUE,
            [setRange(this, 0, 1) EXCEPT
                !.mBufferRef = buffer,
                !.cleared = IF @ = "cleared" /\ buffer # NULL
                            THEN "refilled" ELSE @],
            "none")

\* bool DummyContainerBuffer::copy(buffer)
copyDummy(this, buffer) ==
    Outcome(TRUE,
            [setRange(this, 0, IF buffer # NULL THEN 1 ELSE 0) EXCEPT
                !.mBufferRef = buffer,
                !.cleared = IF @ = "cleared" /\ buffer # NULL
                            THEN "refilled" ELSE @],
            "none")

\* ConstGraphicBlockBuffer::copy from the construction of the converter on
copyToBackBuffer(this, buffer, converter) ==
    LET aBuffer == [id |-> "allocated", capacity |-> this.capacity]
        \* converter.copyToMediaImage(), after setBackBuffer(aBuffer)
        copied == ImageCopy(aBuffer, converter.mMediaImage, buffer.view)
    IN  IF converter.mInitCheck # OK THEN Outcome(FALSE, this, "none")
        ELSE IF ~setBackBufferAccepts(converter, aBuffer)
        THEN Outcome(FALSE, this, "none")
        ELSE Outcome(TRUE,
                     [setRange(this, 0, converter.mBackBufferSize) EXCEPT
                         !.mImageData = converter.mMediaImage,
                         !.mBufferRef = buffer,
                         !.cleared = IF @ = "cleared" THEN "refilled" ELSE @,
                         !.basePixels =
                             IF copied.status = OK THEN "source"
                             ELSE IF copied.copied > 0 THEN "partial"
                             ELSE @],
                     copied.status)

\* bool ConstGraphicBlockBuffer::copy(buffer)
copyConstGraphic(this, buffer) ==
    IF buffer = NULL \/ buffer.graphicBlocks = 0
    THEN Outcome(TRUE, setRange(this, 0, 0), "none")
    ELSE copyToBackBuffer(this, buffer,
                          Construct(buffer.view, this.format, TRUE))

\* Codec2Buffer::copy(buffer), which ConstLinearBlockBuffer and
\* GraphicBlockBuffer inherit
copyDefault(this, buffer) == Outcome(FALSE, this, "none")

\* copy(buffer) of each variant
copy(this, buffer) ==
    CASE this.kind \in LinearKinds -> copyLinear(this, buffer)
      [] this.kind = "DummyContainerBuffer" -> copyDummy(this, buffer)
      [] this.kind = "ConstGraphicBlockBuffer" -> copyConstGraphic(this, buffer)
      [] OTHER -> copyDefault(this, buffer)

\* status_t ImageCopy(C2GraphicView &view, const uint8_t *imgBase,
\*                    const MediaImage2 *img): the image is copied into
\* the view
ImageCopyToView(view, imgBase, img) ==
    IF \/ img = NULL
       \/ imgBase = NULL
       \/ view.width # img.mWidth
       \/ view.height # img.mHeight
    THEN [status |-> BAD_VALUE, copied |-> 0]
    ELSE IF FastPath(view.layout, img)
    THEN [status |-> OK, copied |-> 3]
    ELSE GenericCopy(view.layout, img)

\* the C2Buffer made of a share of the block of a LinearBlockBuffer or of a
\* GraphicBlockBuffer
SharedBlock == [id |-> "C2Buffer of mBlock->share()"]

\* GraphicBlockBuffer::asC2Buffer() copying the other way: from the mapped
\* view into the buffer at base()
asC2BufferGraphic_FromView(this) ==
    IF ~this.mWrapped
    THEN LET copied == ImageCopy(NewBuffer, this.mImageData, this.mView)
         IN  Outcome(SharedBlock,
                     [this EXCEPT !.basePixels =
                         IF copied.status = OK THEN this.viewPixels
                         ELSE IF copied.copied > 0 THEN "partial"
                         ELSE @],
                     copied.status)
    ELSE Outcome(SharedBlock, this, "none")

\* std::shared_ptr<C2Buffer> GraphicBlockBuffer::asC2Buffer()
asC2BufferGraphic(this) ==
    IF ~this.mWrapped
    THEN LET copied == ImageCopyToView(this.mView, NewBuffer, this.mImageData)
         IN  Outcome(SharedBlock,
                     [this EXCEPT !.viewPixels =
                         IF copied.status = OK THEN this.basePixels
                         ELSE IF copied.copied > 0 THEN "partial"
                         ELSE @],
                     copied.status)
    ELSE Outcome(SharedBlock, this, "none")

\* LocalLinearBuffer::asC2Buffer()
asC2BufferLocalLinear(this) == Outcome(NULL, this, "none")

\* asC2Buffer() of each variant
asC2Buffer(this) ==
    CASE this.kind \in RefKinds -> Outcome(this.mBufferRef, this, "none")
      [] this.kind = "LinearBlockBuffer" -> Outcome(SharedBlock, this, "none")
      [] this.kind = "GraphicBlockBuffer" -> asC2BufferGraphic(this)
      [] OTHER -> asC2BufferLocalLinear(this)

\* Codec2Buffer::clearC2BufferRefs(), which LocalLinearBuffer,
\* LinearBlockBuffer and GraphicBlockBuffer inherit
clearC2BufferRefsDefault(this) == [this EXCEPT !.cleared = "cleared"]

\* clearC2BufferRefs() that resets the view of a ConstGraphicBlockBuffer and
\* keeps mBufferRef
clearC2BufferRefs_KeepsRef(this) ==
    CASE this.kind \in {"DummyContainerBuffer", "ConstLinearBlockBuffer"} ->
            [this EXCEPT !.mBufferRef = NULL, !.cleared = "cleared"]
      [] this.kind = "ConstGraphicBlockBuffer" ->
            [this EXCEPT !.mView = NULL, !.cleared = "cleared"]
      [] OTHER -> [this EXCEPT !.cleared = "cleared"]

\* clearC2BufferRefs() of each variant
clearC2BufferRefs(this) ==
    CASE this.kind \in {"DummyContainerBuffer", "ConstLinearBlockBuffer"} ->
            [this EXCEPT !.mBufferRef = NULL, !.cleared = "cleared"]
      [] this.kind = "ConstGraphicBlockBuffer" ->
            [this EXCEPT !.mView = NULL, !.mBufferRef = NULL,
                         !.cleared = "cleared"]
      [] OTHER -> clearC2BufferRefsDefault(this)

CallCanCopy ==
    /\ codec2Buffer # NoBuffer
    /\ \E buffer \in C2Buffers :
          bufferRet' = Returned("canCopy", buffer,
                                canCopy(codec2Buffer, buffer), "none")
    /\ UNCHANGED codec2Buffer
    /\ UNCHANGED exceptBuffer

CallCopy ==
    /\ codec2Buffer # NoBuffer
    /\ \E buffer \in C2Buffers :
          LET r == copy(codec2Buffer, buffer)
          IN  /\ bufferRet' =
                    [Returned("copy", buffer, r.val, r.status) EXCEPT
                        !.afterCanCopy = /\ bufferRet.op = "canCopy"
                                         /\ bufferRet.arg = buffer
                                         /\ bufferRet.val]
              /\ codec2Buffer' = r.this
    /\ UNCHANGED exceptBuffer

CallAsC2Buffer ==
    /\ codec2Buffer # NoBuffer
    /\ LET r == asC2Buffer(codec2Buffer)
       IN  /\ bufferRet' = Returned("asC2Buffer", NULL, r.val, r.status)
           /\ codec2Buffer' = r.this
    /\ UNCHANGED exceptBuffer

CallClearC2BufferRefs ==
    /\ codec2Buffer # NoBuffer
    /\ bufferRet' = Returned("clearC2BufferRefs", NULL, NULL, "none")
    /\ codec2Buffer' = clearC2BufferRefs(codec2Buffer)
    /\ UNCHANGED exceptBuffer

BufferNext ==
    \/ NewLocalLinearBuffer
    \/ AllocateLinearBlockBuffer
    \/ NewDummyContainerBuffer
    \/ AllocateConstLinearBlockBuffer
    \/ AllocateGraphicBlockBuffer
    \/ AllocateConstGraphicBlockBuffer
    \/ AllocateEmptyConstGraphicBlockBuffer
    \/ CallCanCopy
    \/ CallCopy
    \/ CallAsC2Buffer
    \/ CallClearC2BufferRefs

----------------------------------------------------------------------------
(* EncryptedLinearBlockBuffer and its MappedBlock (Codec2Buffer.cpp).      *)
(* The block is mapped into a C2WriteView; the view carries an editable    *)
(* range (offset, size) over the block, data() points at the offset and    *)
(* size() is what is left behind it.                                       *)

\* capacity in bytes of the C2LinearBlock behind the encrypted buffer
BlockCapacity == 3

\* number of copyDecryptedContent() calls in one behaviour
MaxCopies == 3

\* the lengths a caller asks to copy
Lengths == 0..(BlockCapacity + 1)

\* no MappedBlock is alive
NoMapped == [id |-> "nullptr"]

\* block->map().get(): a fresh C2WriteView over the whole block; a failed
\* mapping has an error and no bytes
map(error) ==
    [error |-> error, offset |-> 0,
     size |-> IF error = "C2_OK" THEN BlockCapacity ELSE 0,
     capacity |-> IF error = "C2_OK" THEN BlockCapacity ELSE 0]

\* C2WriteView::setOffset(): moves the start of the range and keeps its end;
\* an offset beyond the capacity is refused
setOffset(view, offset) ==
    IF offset > view.capacity THEN view
    ELSE [view EXCEPT !.offset = offset,
                      !.size = IF offset > view.offset + view.size THEN 0
                               ELSE view.offset + view.size - offset]

\* memcpy(view.data(), src, length): the bytes from the view's offset on
\* are written by copy number "by"
memcpy(bytes, view, length, by) ==
    [i \in DOMAIN bytes |->
        IF i >= view.offset /\ i < view.offset + length THEN by ELSE bytes[i]]

\* MappedBlock::~MappedBlock(): mView.setOffset(0)
destroyMapped(view) == setOffset(view, 0)

\* MappedBlock::copyDecryptedContent() with a cursor that is not advanced
copyDecryptedContentMapped_NoAdvance(view, bytes, length, by) ==
    IF view.error # "C2_OK" THEN [val |-> FALSE, view |-> view, bytes |-> bytes]
    ELSE IF view.size < length
    THEN [val |-> FALSE, view |-> view, bytes |-> bytes]
    ELSE [val |-> TRUE, view |-> view,
          bytes |-> memcpy(bytes, view, length, by)]

\* MappedBlock::copyDecryptedContent(decrypted, length)
copyDecryptedContentMapped(view, bytes, length, by) ==
    IF view.error # "C2_OK" THEN [val |-> FALSE, view |-> view, bytes |-> bytes]
    ELSE IF view.size < length
    THEN [val |-> FALSE, view |-> view, bytes |-> bytes]
    ELSE [val |-> TRUE, view |-> setOffset(view, view.offset + length),
          bytes |-> memcpy(bytes, view, length, by)]

\* the record of a call on the encrypted buffer: view is the MappedBlock's
\* mView when the call returned
MappedReturned(op, length, val, view) ==
    [op |-> op, length |-> length, val |-> val, view |-> view]

MappedInit ==
    /\ mappedBlock = NoMapped
    /\ blockBytes = [i \in 0..(BlockCapacity - 1) |-> 0]
    /\ copies = 0
    /\ mappedRet = MappedReturned("none", 0, FALSE, NoMapped)

\* EncryptedLinearBlockBuffer::getMappedBlock(&mappedBlock) with the
\* MappedBlock constructor; the mapping succeeds or fails
GetMappedBlock ==
    /\ mappedBlock = NoMapped
    /\ \E error \in {"C2_OK", "C2_CORRUPTED"} :
        /\ mappedBlock' = map(error)
        /\ mappedRet' = MappedReturned("getMappedBlock", 0, TRUE, map(error))
    /\ UNCHANGED <<blockBytes, copies>>
    /\ UNCHANGED exceptMapped

\* mappedBlock->copyDecryptedContent(decrypted, length)
CopyDecryptedContentMapped ==
    /\ mappedBlock # NoMapped
    /\ copies < MaxCopies
    /\ \E length \in Lengths :
        LET r == copyDecryptedContentMapped(mappedBlock, blockBytes, length,
                                            copies + 1)
        IN  /\ mappedBlock' = r.view
            /\ blockBytes' = r.bytes
            /\ mappedRet' = MappedReturned("MappedBlock::copyDecryptedContent",
                                           length, r.val, r.view)
    /\ copies' = copies + 1
    /\ UNCHANGED exceptMapped

\* EncryptedLinearBlockBuffer::copyDecryptedContent(decrypted, length):
\* maps the block into a view of its own and copies at its start
CopyDecryptedContent ==
    /\ copies < MaxCopies
    /\ \E length \in Lengths, error \in {"C2_OK", "C2_CORRUPTED"} :
        LET view == map(error)
            ok == view.error = "C2_OK" /\ ~(view.size < length)
        IN  /\ blockBytes' = IF ok THEN memcpy(blockBytes, view, length,
                                               copies + 1)
                             ELSE blockBytes
            /\ mappedRet' = MappedReturned("copyDecryptedContent", length, ok,
                                           mappedBlock)
    /\ copies' = copies + 1
    /\ UNCHANGED mappedBlock
    /\ UNCHANGED exceptMapped

\* the unique_ptr<MappedBlock> goes out of scope: ~MappedBlock()
DestroyMappedBlock ==
    /\ mappedBlock # NoMapped
    /\ mappedRet' = MappedReturned("~MappedBlock", 0, TRUE,
                                   destroyMapped(mappedBlock))
    /\ mappedBlock' = NoMapped
    /\ UNCHANGED <<blockBytes, copies>>
    /\ UNCHANGED exceptMapped

MappedNext ==
    \/ GetMappedBlock
    \/ CopyDecryptedContentMapped
    \/ CopyDecryptedContent
    \/ DestroyMappedBlock

----------------------------------------------------------------------------
(* ImageCopy byte by byte (Codec2BufferUtils.cpp 40-293).  A copy is the   *)
(* set of the stores it makes, each with the address it reads; addresses   *)
(* on the view side are those of view.data(), addresses on the image side  *)
(* are offsets from imgBase.                                               *)

\* n bytes stored from address dst on, read from address src on; of two
\* stores to one address the one of higher order is the later
Item(order, dst, src, n) == [order |-> order, dst |-> dst, src |-> src, n |-> n]

\* the stores made in order: destination address -> the source address of
\* the byte it holds in the end
Moved(items) ==
    [a \in UNION {it.dst..(it.dst + it.n - 1) : it \in items} |->
        LET over == {it \in items : a >= it.dst /\ a < it.dst + it.n}
            last == CHOOSE it \in over : \A o \in over : o.order <= it.order
        IN  last.src + (a - last.dst)]

\* libyuv::CopyPlane: height rows of width bytes
CopyPlane(o, src, src_stride, dst, dst_stride, width, height) ==
    {Item(o + 100 * r, dst + r * dst_stride, src + r * src_stride, width) :
        r \in 0..(height - 1)}

\* libyuv::SwapUVPlane: the two bytes of each pair change places
SwapUVPlane(o, src_vu, src_stride, dst_uv, dst_stride, width, height) ==
    {Item(o + 100 * r + 2 * c + k, dst_uv + r * dst_stride + 2 * c + k,
          src_vu + r * src_stride + 2 * c + (1 - k), 1) :
        r \in 0..(height - 1), c \in 0..(width - 1), k \in 0..1}

\* libyuv::SplitUVPlane: the pairs are taken apart into two planes
SplitUVPlane(o, src_uv, src_stride, dst_u, stride_u, dst_v, stride_v, width, height) ==
    {Item(o + 100 * r + 2 * c, dst_u + r * stride_u + c,
          src_uv + r * src_stride + 2 * c, 1) :
        r \in 0..(height - 1), c \in 0..(width - 1)}
    \cup {Item(o + 100 * r + 2 * c + 1, dst_v + r * stride_v + c,
               src_uv + r * src_stride + 2 * c + 1, 1) :
            r \in 0..(height - 1), c \in 0..(width - 1)}

\* libyuv::MergeUVPlane: two planes are interleaved into pairs
MergeUVPlane(o, src_u, stride_u, src_v, stride_v, dst_uv, dst_stride, width, height) ==
    {Item(o + 100 * r + 2 * c, dst_uv + r * dst_stride + 2 * c,
          src_u + r * stride_u + c, 1) :
        r \in 0..(height - 1), c \in 0..(width - 1)}
    \cup {Item(o + 100 * r + 2 * c + 1, dst_uv + r * dst_stride + 2 * c + 1,
               src_v + r * stride_v + c, 1) :
            r \in 0..(height - 1), c \in 0..(width - 1)}

\* libyuv::NV21ToNV12 (s: the source planes, d: the destination planes);
\* the chroma plane has (width + 1) / 2 pairs in (height + 1) / 2 rows
NV21ToNV12(s, src_vu, d, dst_uv, width, height) ==
    CopyPlane(0, s.y, s.stride_y, d.y, d.stride_y, width, height)
    \cup SwapUVPlane(10000, src_vu.at, src_vu.stride, dst_uv.at, dst_uv.stride,
                     (width + 1) \div 2, (height + 1) \div 2)

\* libyuv::NV12ToI420, and NV21ToI420 which is the same with dst_u and
\* dst_v exchanged
NV12ToI420(s, src_uv, d, dst_u, dst_v, width, height) ==
    CopyPlane(0, s.y, s.stride_y, d.y, d.stride_y, width, height)
    \cup SplitUVPlane(10000, src_uv.at, src_uv.stride, dst_u.at, dst_u.stride,
                      dst_v.at, dst_v.stride,
                      (width + 1) \div 2, (height + 1) \div 2)

\* libyuv::I420ToNV12, and I420ToNV21 which is the same with src_u and
\* src_v exchanged
I420ToNV12(s, src_u, src_v, d, dst_uv, width, height) ==
    CopyPlane(0, s.y, s.stride_y, d.y, d.stride_y, width, height)
    \cup MergeUVPlane(10000, src_u.at, src_u.stride, src_v.at, src_v.stride,
                      dst_uv.at, dst_uv.stride,
                      (width + 1) \div 2, (height + 1) \div 2)

\* src_y, src_u, src_v and src_stride_y, src_stride_u, src_stride_v (or
\* dst_...) of ImageCopy on the side of the view
ViewPlanes(view) ==
    [y |-> view.data[0], stride_y |-> view.layout.planes[0].rowInc,
     u |-> [at |-> view.data[1], stride |-> view.layout.planes[1].rowInc],
     v |-> [at |-> view.data[2], stride |-> view.layout.planes[2].rowInc]]

\* the same on the side of the image
ImagePlanes(img) ==
    [y |-> img.mPlane[0].mOffset, stride_y |-> img.mPlane[0].mRowInc,
     u |-> [at |-> img.mPlane[1].mOffset, stride |-> img.mPlane[1].mRowInc],
     v |-> [at |-> img.mPlane[2].mOffset, stride |-> img.mPlane[2].mRowInc]]

\* the branch of ImageCopy's if-chain a view takes
ViewShape(layout) ==
    IF IsNV12View(layout) THEN "NV12"
    ELSE IF IsNV21View(layout) THEN "NV21"
    ELSE IF IsI420View(layout) THEN "I420"
    ELSE "generic"

\* the branch of ImageCopy's if-chain an image descriptor takes
ImageShape(img) ==
    IF IsNV12Img(img) THEN "NV12"
    ELSE IF IsNV21Img(img) THEN "NV21"
    ELSE IF IsI420Img(img) THEN "I420"
    ELSE "generic"

\* The libyuv calls of ImageCopy for a source of shape from and a
\* destination of shape to; the two directions make the same calls with
\* the source and the destination planes exchanged.  Every libyuv routine
\* returns 0 here: its pointers are not null and width, height are positive.
LibyuvCopy(from, to, s, d, width, height) ==
    CASE from = "NV12" /\ to = "NV12" ->
            CopyPlane(0, s.y, s.stride_y, d.y, d.stride_y, width, height)
            \cup CopyPlane(10000, s.u.at, s.u.stride, d.u.at, d.u.stride,
                           width, height \div 2)
      [] from = "NV12" /\ to = "NV21" -> NV21ToNV12(s, s.u, d, d.v, width, height)
      [] from = "NV12" /\ to = "I420" -> NV12ToI420(s, s.u, d, d.u, d.v, width, height)
      [] from = "NV21" /\ to = "NV12" -> NV21ToNV12(s, s.v, d, d.u, width, height)
      [] from = "NV21" /\ to = "NV21" ->
            CopyPlane(0, s.y, s.stride_y, d.y, d.stride_y, width, height)
            \cup CopyPlane(10000, s.v.at, s.v.stride, d.v.at, d.v.stride,
                           width, height \div 2)
      [] from = "NV21" /\ to = "I420" -> NV12ToI420(s, s.v, d, d.v, d.u, width, height)
      [] from = "I420" /\ to = "NV12" -> I420ToNV12(s, s.u, s.v, d, d.u, width, height)
      [] from = "I420" /\ to = "NV21" -> I420ToNV12(s, s.v, s.u, d, d.v, width, height)
      [] from = "I420" /\ to = "I420" ->
            CopyPlane(0, s.y, s.stride_y, d.y, d.stride_y, width, height)
            \cup CopyPlane(10000, s.u.at, s.u.stride, d.u.at, d.u.stride,
                           width \div 2, height \div 2)
            \cup CopyPlane(20000, s.v.at, s.v.stride, d.v.at, d.v.stride,
                           width \div 2, height \div 2)

\* _ImageCopy, the copy of plane i: its granularity and its stores.  A
\* negative length handed to memcpy becomes a huge size_t: the copy runs
\* until it faults (crashes).
PlaneCopy(view, img, i, toMediaImage) ==
    LET plane == view.layout.planes[i]
        bpp == divUp(img.mBitDepthAllocated, 8)
        imgRow == img.mPlane[i].mOffset
        viewRow == view.data[i]
        planeW == img.mWidth \div plane.colSampling
        planeH == img.mHeight \div plane.rowSampling
        canCopyByRow == plane.colInc = bpp /\ img.mPlane[i].mColInc = bpp
        canCopyByPlane == canCopyByRow /\ plane.rowInc = img.mPlane[i].mRowInc
        rowLength == IF plane.rowInc < img.mPlane[i].mRowInc
                     THEN plane.rowInc ELSE img.mPlane[i].mRowInc
        memcopy(row, col, size) ==
            LET imgPtr == imgRow + row * img.mPlane[i].mRowInc
                                 + col * img.mPlane[i].mColInc
                viewPtr == viewRow + row * plane.rowInc + col * plane.colInc
                order == 10000 * i + 100 * row + col
            IN  IF toMediaImage THEN Item(order, imgPtr, viewPtr, size)
                ELSE Item(order, viewPtr, imgPtr, size)
    IN  IF canCopyByPlane
        THEN [granularity |-> "plane",
              crashes |-> plane.rowInc * planeH < 0,
              items |-> {memcopy(0, 0, plane.rowInc * planeH)}]
        ELSE IF canCopyByRow
        THEN [granularity |-> "row",
              crashes |-> planeH > 0 /\ rowLength < 0,
              items |-> {memcopy(row, 0, rowLength) : row \in 0..(planeH - 1)}]
        ELSE [granularity |-> "pixel",
              crashes |-> FALSE,
              items |-> {memcopy(row, col, bpp) :
                            row \in 0..(planeH - 1), col \in 0..(planeW - 1)}]

\* what an ImageCopy did: its status ("SIGSEGV" when it crashed), the way
\* it took, the stores it made and the stores of the memcpy it crashed in
Copied(status, path, items, torn) ==
    [status |-> status, path |-> path, items |-> items, torn |-> torn]

\* template<bool ToMediaImage> _ImageCopy(view, img, imgBase): the planes
\* are checked and copied one after the other
GenericImageCopy(view, img, toMediaImage) ==
    LET layout == view.layout
        bad == {i \in 0..(layout.numPlanes - 1) :
                    PlaneIncompatible(layout.planes[i], img, i)}
        stop == IF bad = {} THEN layout.numPlanes ELSE SetMin(bad)
        crashing == {i \in 0..(stop - 1) :
                        PlaneCopy(view, img, i, toMediaImage).crashes}
        done == IF crashing = {} THEN stop ELSE SetMin(crashing)
    IN  Copied(IF crashing # {} THEN "SIGSEGV"
               ELSE IF bad = {} THEN OK ELSE BAD_VALUE,
               {PlaneCopy(view, img, i, toMediaImage).granularity :
                    i \in 0..(done - 1)},
               UNION {PlaneCopy(view, img, i, toMediaImage).items :
                        i \in 0..(done - 1)},
               IF crashing = {} THEN {}
               ELSE {[it EXCEPT !.n = Abs(it.n)] :
                        it \in {c \in PlaneCopy(view, img, done, toMediaImage).items :
                                    c.order = 10000 * done}})

\* ImageCopy into the image without its test of the height
CopyViewToImage_AnyHeight(imgBase, img, view) ==
    IF \/ img = NULL
       \/ imgBase = NULL
       \/ view.width # img.mWidth
    THEN Copied(BAD_VALUE, {}, {}, {})
    ELSE IF ViewShape(view.layout) # "generic" /\ ImageShape(img) # "generic"
    THEN Copied(OK, {"libyuv"},
                LibyuvCopy(ViewShape(view.layout), ImageShape(img),
                           ViewPlanes(view), ImagePlanes(img),
                           view.width, view.height), {})
    ELSE GenericImageCopy(view, img, TRUE)

\* ImageCopy(uint8_t *imgBase, const MediaImage2 *img,
\*           const C2GraphicView &view) with the stores it makes
CopyViewToImage(imgBase, img, view) ==
    IF \/ img = NULL
       \/ imgBase = NULL
       \/ view.width # img.mWidth
       \/ view.height # img.mHeight
    THEN Copied(BAD_VALUE, {}, {}, {})
    ELSE IF ViewShape(view.layout) # "generic" /\ ImageShape(img) # "generic"
    THEN Copied(OK, {"libyuv"},
                LibyuvCopy(ViewShape(view.layout), ImageShape(img),
                           ViewPlanes(view), ImagePlanes(img),
                           view.width, view.height), {})
    ELSE GenericImageCopy(view, img, TRUE)

\* ImageCopy(C2GraphicView &view, const uint8_t *imgBase,
\*           const MediaImage2 *img) with the stores it makes
CopyImageToView(view, imgBase, img) ==
    IF \/ img = NULL
       \/ imgBase = NULL
       \/ view.width # img.mWidth
       \/ view.height # img.mHeight
    THEN Copied(BAD_VALUE, {}, {}, {})
    ELSE IF ImageShape(img) # "generic" /\ ViewShape(view.layout) # "generic"
    THEN Copied(OK, {"libyuv"},
                LibyuvCopy(ImageShape(img), ViewShape(view.layout),
                           ImagePlanes(img), ViewPlanes(view),
                           view.width, view.height), {})
    ELSE GenericImageCopy(view, img, FALSE)

\* the views the images are copied from and into: the layouts of a buffer
\* as wide as the crop and of one two pixels wider, and a single plane
\* stored bottom-up
CopyViews(w, h) ==
    {View(C2_OK, w, h, b.layout, Place(b.rel, "tight")) :
        b \in BaseLayouts(w, h) \cup BaseLayouts(w + 2, h)}
    \cup {View(C2_OK, w, h,
               Layout("UNKNOWN", 1, <<PlaneInfo("Y", 1, -w, 1, 1, 8, 8, 0, 0, 0)>>),
               [i \in {0} |-> 20000 + w * (h - 1)])}

\* a layout of three planes with another number of root planes, or with a
\* chroma plane said to lie elsewhere among the root planes
RootVariants(l) ==
    IF l.numPlanes < 3 THEN {}
    ELSE {[l EXCEPT !.rootPlanes = r] : r \in {2, 3}}
         \cup {[l EXCEPT !.planes[i].rootIx = x, !.planes[i].offset = o] :
                    i \in {PLANE_U, PLANE_V}, x \in {PLANE_U, PLANE_V}, o \in {0, 1}}

\* the views of layouts that are near the canonical ones: one stride,
\* subsampling factor, depth, channel or root plane differs
OddViews(w, h) ==
    UNION { {View(C2_OK, w, h, l, Place(b.rel, "tight")) :
                l \in GeometryVariants(b.layout) \cup ShapeVariants(b.layout)
                      \cup RootVariants(b.layout)}
            : b \in BaseLayouts(w, h) }

\* a MediaImage2
MediaImage2(type, numPlanes, w, h, bitDepth, allocated, planes) ==
    [mType |-> type, mNumPlanes |-> numPlanes, mWidth |-> w, mHeight |-> h,
     mBitDepth |-> bitDepth, mBitDepthAllocated |-> allocated,
     mPlane |-> [i \in 0..3 |-> planes[i + 1]]]

\* the flat YUV images the converter lays out for a w x h picture in a
\* buffer ws pixels wide: I420, NV12, P010, and NV21
CanonicalImages(w, h, ws) ==
    LET none == Layout("YUV", 0, <<>>)
        yuv(cf, bytes) == YuvImagePlanes(none, cf, align(ws, 2) * bytes,
                                         align(h, 2), 8 * bytes)
        nv12 == yuv("YUV420SemiPlanar", 1)
    IN  {MediaImage2("YUV", 3, w, h, 8, 8, yuv("YUV420Planar", 1)),
         MediaImage2("YUV", 3, w, h, 8, 8, nv12),
         MediaImage2("YUV", 3, w, h, 8, 8, <<nv12[1], nv12[3], nv12[2], nv12[4]>>),
         MediaImage2("YUV", 3, w, h, 10, 16, yuv("YUVP010", 2))}

\* the flat image that describes the memory of a view plane by plane, as
\* the converter's image of a wrapped view does
MirrorImage(view) ==
    LET layout == view.layout
        first == SetMin({view.data[i] : i \in 0..(layout.numPlanes - 1)})
    IN  MediaImage2(layout.type, layout.numPlanes, view.width, view.height,
                    layout.planes[0].bitDepth, layout.planes[0].allocatedDepth,
                    [i \in 1..4 |->
                        IF i <= layout.numPlanes
                        THEN ImgPlane(view.data[i - 1] - first,
                                      Abs(layout.planes[i - 1].colInc),
                                      Abs(layout.planes[i - 1].rowInc),
                                      layout.planes[i - 1].colSampling,
                                      layout.planes[i - 1].rowSampling)
                        ELSE ImgPlane(0, 0, 0, 0, 0)])

\* the image descriptors of a w x h picture
CopyImages(w, h) ==
    CanonicalImages(w, h, w) \cup CanonicalImages(w, h, w + 2)
    \cup {MirrorImage(view) : view \in CopyViews(w, h)}

\* the base of the image's memory
ImgBase == [id |-> "imgBase"]

\* no ImageCopy has been set up
NoJob == [id |-> "nullptr"]

\* the byte at an address of the view before any copy: each address holds
\* a byte of its own
ViewByte(a) == a

\* the byte at an offset of the image's memory: what a copy stored there,
\* or the byte of its own it held before
ImgByte(data, b) == IF b \in DOMAIN data THEN data[b] ELSE -1 - b

\* the byte at an address of the view a copy wrote into, 0 where nothing
\* was stored
BackByte(data, a) == IF a \in DOMAIN data THEN data[a] ELSE 0

\* the record of an ImageCopy call: forward is the status of the latest
\* copy into the image ("none" before the first)
CopyReturned(op, copied, forward) ==
    [op |-> op, status |-> copied.status, path |-> copied.path,
     forward |-> forward]

CopyInit ==
    /\ copyJob = NoJob
    /\ imgData = <<>>
    /\ backData = <<>>
    /\ copyRet = CopyReturned("none", Copied("none", {}, {}, {}), "none")

\* a view, an image descriptor and the image's memory are set up; the image
\* descriptor may be missing or of another size, the memory may be missing
SetUpCopy ==
    /\ copyJob = NoJob
    /\ \E w \in 1..MaxWidth, h \in 1..MaxHeight :
        \/ \E view \in CopyViews(w, h) :
            \/ \E img \in CopyImages(w, h) :
                copyJob' = [view |-> view, img |-> img, imgBase |-> ImgBase]
            \/ \E img \in CanonicalImages(w, h, w) :
                copyJob' \in {[view |-> view, img |-> img, imgBase |-> NULL],
                              [view |-> view, img |-> [img EXCEPT !.mWidth = w + 1],
                               imgBase |-> ImgBase],
                              [view |-> view, img |-> [img EXCEPT !.mHeight = h + 1],
                               imgBase |-> ImgBase]}
            \/ copyJob' = [view |-> view, img |-> NULL, imgBase |-> ImgBase]
        \/ \E view \in OddViews(w, h), img \in CanonicalImages(w, h, w) :
                copyJob' = [view |-> view, img |-> img, imgBase |-> ImgBase]
    /\ UNCHANGED <<imgData, backData, copyRet>>
    /\ UNCHANGED exceptCopy

\* ImageCopy(imgBase, img, view): the view is copied into the image.  When
\* the copy crashes, how much the faulting memcpy stored is not defined.
ViewToImage ==
    /\ copyJob # NoJob
    /\ copyRet.status # "SIGSEGV"
    /\ LET copied == CopyViewToImage(copyJob.imgBase, copyJob.img, copyJob.view)
       IN  /\ \E torn \in {{}, copied.torn} :
                LET moved == Moved(copied.items \cup torn)
                IN  imgData' = [b \in DOMAIN imgData \cup DOMAIN moved |->
                                   IF b \in DOMAIN moved THEN ViewByte(moved[b])
                                   ELSE imgData[b]]
           /\ copyRet' = CopyReturned("ImageCopy(imgBase, img, view)", copied,
                                      copied.status)
    /\ UNCHANGED <<copyJob, backData>>
    /\ UNCHANGED exceptCopy

\* ImageCopy(view, imgBase, img): the image is copied into a view of the
\* same layout whose memory is not the one the image was copied from
ImageToView ==
    /\ copyJob # NoJob
    /\ copyRet.status # "SIGSEGV"
    /\ LET copied == CopyImageToView(copyJob.view, copyJob.imgBase, copyJob.img)
       IN  /\ \E torn \in {{}, copied.torn} :
                LET moved == Moved(copied.items \cup torn)
                IN  backData' = [a \in DOMAIN backData \cup DOMAIN moved |->
                                    IF a \in DOMAIN moved
                                    THEN ImgByte(imgData, moved[a])
                                    ELSE backData[a]]
           /\ copyRet' = CopyReturned("ImageCopy(view, imgBase, img)", copied,
                                      copyRet.forward)
    /\ UNCHANGED <<copyJob, imgData>>
    /\ UNCHANGED exceptCopy

CopyNext ==
    \/ SetUpCopy
    \/ ViewToImage
    \/ ImageToView

----------------------------------------------------------------------------
(* mediautils::jthread (jthread.h) with the callable and the owner of      *)
(* jthread_tests.cpp: the callable loops until stop_token::stop_requested() *)
(* and then sets is_stopped; the owner may call request_stop() and         *)
(* destroys the jthread.                                                   *)

\* where the counter of the callable stops growing (the tests use
\* std::numeric_limits<int>::max())
MaxCount == 12

\* bool stop_source::request_stop() that flips the signal
request_stop_Flips(signal) == [val |-> TRUE, signal |-> ~signal]

\* bool stop_source::request_stop():
\* cancellation_signal_.compare_exchange_strong(f = false, true)
request_stop(signal) == [val |-> ~signal, signal |-> TRUE]

\* bool stop_source::stop_requested(), which stop_token::stop_requested()
\* returns
stop_requested(signal) == signal

\* no request_stop() has returned yet
NoStopRet == [id |-> "nullptr"]

JthreadInit ==
    /\ cancellation_signal_ = FALSE
    /\ thread_ = "not started"
    /\ owner = "before"
    /\ xCount = 0
    /\ is_stopped = FALSE
    /\ stopRet = NoStopRet

\* jthread(F&& f): stop_source_ is constructed, then thread_ is launched
\* with the token
JthreadConstruct ==
    /\ owner = "before"
    /\ owner' = "owning"
    /\ thread_' = "while"
    /\ cancellation_signal_' = FALSE
    /\ UNCHANGED <<xCount, is_stopped, stopRet>>
    /\ UNCHANGED exceptJthread

\* the callable: while (!stok.stop_requested())
CallableTestsStop ==
    /\ thread_ = "while"
    /\ thread_' = IF stop_requested(cancellation_signal_) THEN "after" ELSE "body"
    /\ UNCHANGED <<cancellation_signal_, owner, xCount, is_stopped, stopRet>>
    /\ UNCHANGED exceptJthread

\* the callable: if (x.load() < max) x++;
CallableWorks ==
    /\ thread_ = "body"
    /\ xCount' = IF xCount < MaxCount THEN xCount + 1 ELSE xCount
    /\ thread_' = "while"
    /\ UNCHANGED <<cancellation_signal_, owner, is_stopped, stopRet>>
    /\ UNCHANGED exceptJthread

\* the callable: is_stopped = true; and it returns
CallableReturns ==
    /\ thread_ = "after"
    /\ is_stopped' = TRUE
    /\ thread_' = "returned"
    /\ UNCHANGED <<cancellation_signal_, owner, xCount, stopRet>>
    /\ UNCHANGED exceptJthread

\* the owner: jt.request_stop()
RequestStop ==
    /\ owner = "owning"
    /\ cancellation_signal_' = request_stop(cancellation_signal_).signal
    /\ stopRet' = [val |-> request_stop(cancellation_signal_).val]
    /\ UNCHANGED <<thread_, owner, xCount, is_stopped>>
    /\ UNCHANGED exceptJthread

\* ~jthread(), first statement: stop_source_.request_stop()
DtorRequestsStop ==
    /\ owner = "owning"
    /\ cancellation_signal_' = request_stop(cancellation_signal_).signal
    /\ owner' = "joining"
    /\ UNCHANGED <<thread_, xCount, is_stopped, stopRet>>
    /\ UNCHANGED exceptJthread

\* ~jthread(), second statement: thread_.join() returns once the callable
\* has returned
DtorJoins ==
    /\ owner = "joining"
    /\ thread_ = "returned"
    /\ owner' = "destroyed"
    /\ UNCHANGED <<cancellation_signal_, thread_, xCount, is_stopped, stopRet>>
    /\ UNCHANGED exceptJthread

JthreadNext ==
    \/ JthreadConstruct
    \/ CallableTestsStop
    \/ CallableWorks
    \/ CallableReturns
    \/ RequestStop
    \/ DtorRequestsStop
    \/ DtorJoins

----------------------------------------------------------------------------
(* PowerStats and its operator+ (psh_utils/PowerStats.cpp, HealthStats.cpp). *)
(* The counters are far from 2^64 and the doubles are whole numbers, so    *)
(* the sums are those of the integers.                                     *)

\* choose_best_start_time(a, b): min(a, b) if both exist (are not 0),
\* otherwise the one that exists
choose_best_start_time(a, b) ==
    IF a # 0 THEN (IF b # 0 THEN (IF b < a THEN b ELSE a) ELSE a) ELSE b

\* choose_voltage(a, b) and std::max(a, b)
choose_voltage(a, b) == IF a < b THEN b ELSE a

\* PowerStats::Metadata::operator+=
MetadataPlus(this, other) ==
    [start_time_since_boot_ms |->
        choose_best_start_time(this.start_time_since_boot_ms,
                               other.start_time_since_boot_ms),
     start_time_epoch_ms |->
        choose_best_start_time(this.start_time_epoch_ms, other.start_time_epoch_ms),
     start_time_monotonic_ms |->
        choose_best_start_time(this.start_time_monotonic_ms,
                               other.start_time_monotonic_ms),
     duration_ms |-> this.duration_ms + other.duration_ms,
     duration_monotonic_ms |->
        this.duration_monotonic_ms + other.duration_monotonic_ms]

\* HealthStats::operator+=
HealthStatsPlus(this, other) ==
    [batteryVoltageMillivolts |->
        choose_voltage(this.batteryVoltageMillivolts, other.batteryVoltageMillivolts),
     batteryFullChargeUah |->
        choose_voltage(this.batteryFullChargeUah, other.batteryFullChargeUah),
     batteryChargeCounterUah |->
        this.batteryChargeCounterUah + other.batteryChargeCounterUah]

\* PowerStats::StateResidency::operator+= that keeps its own entry_count
StateResidencyPlus_KeepsCount(this, other) ==
    [entity_name |-> IF this.entity_name = "" THEN other.entity_name
                     ELSE this.entity_name,
     state_name |-> IF this.state_name = "" THEN other.state_name
                    ELSE this.state_name,
     time_ms |-> this.time_ms + other.time_ms,
     entry_count |-> this.entry_count]

\* PowerStats::StateResidency::operator+=
StateResidencyPlus(this, other) ==
    [entity_name |-> IF this.entity_name = "" THEN other.entity_name
                     ELSE this.entity_name,
     state_name |-> IF this.state_name = "" THEN other.state_name
                    ELSE this.state_name,
     time_ms |-> this.time_ms + other.time_ms,
     entry_count |-> this.entry_count + other.entry_count]

\* PowerStats::RailEnergy::operator+=
RailEnergyPlus(this, other) ==
    [subsystem_name |-> IF this.subsystem_name = "" THEN other.subsystem_name
                        ELSE this.subsystem_name,
     rail_name |-> IF this.rail_name = "" THEN other.rail_name
                   ELSE this.rail_name,
     energy_uws |-> this.energy_uws + other.energy_uws]

\* PowerStats::operator+= (and operator+, which applies it to a copy); the
\* loops read other's entry at every index of this
PowerStatsPlus(this, other) ==
    [metadata |-> MetadataPlus(this.metadata, other.metadata),
     health_stats |-> HealthStatsPlus(this.health_stats, other.health_stats),
     power_entity_state_residency |->
        IF this.power_entity_state_residency = <<>>
        THEN other.power_entity_state_residency
        ELSE [i \in 1..Len(this.power_entity_state_residency) |->
                StateResidencyPlus(this.power_entity_state_residency[i],
                                   other.power_entity_state_residency[i])],
     rail_energy |->
        IF this.rail_energy = <<>>
        THEN other.rail_energy
        ELSE [i \in 1..Len(this.rail_energy) |->
                RailEnergyPlus(this.rail_energy[i], other.rail_energy[i])]]

\* the metadata of the values added: no start times (a default PowerStats),
\* and two intervals
Metadatas ==
    {[start_time_since_boot_ms |-> 0, start_time_epoch_ms |-> 0,
      start_time_monotonic_ms |-> 0, duration_ms |-> 0,
      duration_monotonic_ms |-> 0],
     [start_time_since_boot_ms |-> 16, start_time_epoch_ms |-> 11,
      start_time_monotonic_ms |-> 15, duration_ms |-> 5,
      duration_monotonic_ms |-> 3],
     [start_time_since_boot_ms |-> 26, start_time_epoch_ms |-> 21,
      start_time_monotonic_ms |-> 12, duration_ms |-> 10,
      duration_monotonic_ms |-> 9]}

\* the health stats of the values added
HealthStatsValues ==
    {[batteryVoltageMillivolts |-> 42, batteryFullChargeUah |-> 33,
      batteryChargeCounterUah |-> 21],
     [batteryVoltageMillivolts |-> 43, batteryFullChargeUah |-> 32,
      batteryChargeCounterUah |-> 25]}

\* the state residencies of the values added: without names as in the
\* tests, and of two power entities
StateResidencies ==
    {[entity_name |-> "", state_name |-> "", time_ms |-> 5, entry_count |-> 15],
     [entity_name |-> "CPU", state_name |-> "ON", time_ms |-> 10, entry_count |-> 18],
     [entity_name |-> "GPU", state_name |-> "ON", time_ms |-> 7, entry_count |-> 2]}

\* the rail energies of the values added
RailEnergies ==
    {[subsystem_name |-> "", rail_name |-> "", energy_uws |-> 5],
     [subsystem_name |-> "Audio", rail_name |-> "L1", energy_uws |-> 10],
     [subsystem_name |-> "Audio", rail_name |-> "L2", energy_uws |-> 4]}

\* the PowerStats values added: up to two state residencies, up to one rail
PowerStatsValues ==
    [metadata : Metadatas,
     health_stats : HealthStatsValues,
     power_entity_state_residency :
        {<<>>} \cup {<<r>> : r \in StateResidencies}
               \cup {<<r, s>> : r \in StateResidencies, s \in StateResidencies},
     rail_energy : {<<>>} \cup {<<e>> : e \in RailEnergies}]

\* nothing has been added yet
NoSum == [id |-> "nullptr"]

PowerInit == powerSum = NoSum

\* ps1 + ps2 and ps2 + ps1 for two values whose lists are of equal lengths
AddPowerStats ==
    /\ powerSum = NoSum
    /\ \E a \in PowerStatsValues, b \in PowerStatsValues :
        /\ Len(a.power_entity_state_residency) = Len(b.power_entity_state_residency)
        /\ Len(a.rail_energy) = Len(b.rail_energy)
        /\ powerSum' = [a |-> a, b |-> b, ab |-> PowerStatsPlus(a, b),
                        ba |-> PowerStatsPlus(b, a)]
    /\ UNCHANGED exceptPower

PowerNext ==
    \/ AddPowerStats

----------------------------------------------------------------------------
(* MemoryBlockPool with concurrent callers: fetch and release step by      *)
(* step, each body under std::lock_guard<std::mutex> lock(mMutex).         *)

\* the number of blocks the callers make the pool allocate
MaxBlocks == 4

\* the threads that fetch blocks and drop the last references to them
Callers == {"t1", "t2"}

\* the sizes the callers ask for
CallerSizes == {1, 2}

\* mMutex when no lock_guard holds it
Unlocked == "unlocked"

\* no block
NoBlock == NewBlock(0, 0)

\* the locals of a caller that is neither in fetch nor in release
NoLocals == [size |-> 0, block |-> NoBlock]

\* what is in a list of blocks
BlocksOf(blocks) == {blocks[i] : i \in 1..Len(blocks)}

\* the list without the block (std::list::erase, and the source side of
\* std::list::splice)
Erase(blocks, block) == SelectSeq(blocks, LAMBDA x : ~(x = block))

\* a lock_guard that does not wait for the mutex
MutexFree_Always(mutex) == TRUE

\* std::lock_guard<std::mutex> lock(mMutex) can take the mutex
MutexFree(mutex) == mutex = Unlocked

\* the callers that are inside MemoryBlockPool::fetch
Fetching == {c \in Callers : callerAt[c] \in {"fetch_lock", "fetch_take",
                                              "fetch_splice", "fetch_return"}}

\* every variable but those of the pool and of its callers
exceptPoolAndCallers == <<convVars, bufferVars, mappedVars, copyVars,
                          jthreadVars, powerVars>>

\* MemoryBlockPool(): both lists empty, no caller
CallersInit ==
    /\ mMutex = Unlocked
    /\ callerAt = [c \in Callers |-> "idle"]
    /\ callerLocal = [c \in Callers |-> NoLocals]
    /\ callerBlocks = [c \in Callers |-> {}]
    /\ destroyed = {}

\* a caller calls MemoryBlockPool::fetch(size)
CallFetch ==
    /\ allocCount + Cardinality(Fetching) < MaxBlocks
    /\ \E c \in Callers, size \in CallerSizes :
        /\ callerAt[c] = "idle"
        /\ callerAt' = [callerAt EXCEPT ![c] = "fetch_lock"]
        /\ callerLocal' = [callerLocal EXCEPT ![c] = [size |-> size, block |-> NoBlock]]
    /\ UNCHANGED <<mMutex, callerBlocks, destroyed, poolVars>>
    /\ UNCHANGED exceptPoolAndCallers

\* fetch: std::lock_guard<std::mutex> lock(mMutex);
\* mFreeBlocks.remove_if(...); mCurrentSize = size;
FetchLocks ==
    /\ MutexFree(mMutex)
    /\ \E c \in Callers :
        /\ callerAt[c] = "fetch_lock"
        /\ mMutex' = c
        /\ mFreeBlocks' = RemoveOtherSizes(mFreeBlocks, callerLocal[c].size)
        /\ destroyed' = destroyed \cup
                (BlocksOf(mFreeBlocks) \ BlocksOf(mFreeBlocks'))
        /\ mCurrentSize' = callerLocal[c].size
        /\ callerAt' = [callerAt EXCEPT ![c] = "fetch_take"]
    /\ UNCHANGED <<callerLocal, callerBlocks>>
    /\ UNCHANGED <<mBlocksInUse, allocCount, poolLog>>
    /\ UNCHANGED exceptPoolAndCallers

\* fetch: if (mFreeBlocks.empty()) mBlocksInUse.emplace_front(size);
\* otherwise mFreeBlocks.begin() is evaluated for the splice
FetchTakes ==
    /\ \E c \in Callers :
        /\ callerAt[c] = "fetch_take"
        /\ IF mFreeBlocks = <<>>
           THEN /\ mBlocksInUse' =
                      <<NewBlock(allocCount + 1, callerLocal[c].size)>> \o mBlocksInUse
                /\ allocCount' = allocCount + 1
                /\ callerAt' = [callerAt EXCEPT ![c] = "fetch_return"]
                /\ UNCHANGED callerLocal
           ELSE /\ callerLocal' = [callerLocal EXCEPT ![c].block = Head(mFreeBlocks)]
                /\ callerAt' = [callerAt EXCEPT ![c] = "fetch_splice"]
                /\ UNCHANGED <<mBlocksInUse, allocCount>>
    /\ UNCHANGED <<mMutex, callerBlocks, destroyed>>
    /\ UNCHANGED <<mFreeBlocks, mCurrentSize, poolLog>>
    /\ UNCHANGED exceptPoolAndCallers

\* fetch: mBlocksInUse.splice(mBlocksInUse.begin(), mFreeBlocks,
\* mFreeBlocks.begin()) unless the block is new; return
\* mBlocksInUse.begin(); the lock_guard unlocks, and MemoryBlockPool::fetch
\* wraps the block in the MemoryBlock of the caller
FetchReturns ==
    /\ \E c \in Callers :
        /\ callerAt[c] \in {"fetch_splice", "fetch_return"}
        /\ IF callerAt[c] = "fetch_splice"
           THEN /\ mFreeBlocks' = Erase(mFreeBlocks, callerLocal[c].block)
                /\ mBlocksInUse' = <<callerLocal[c].block>> \o mBlocksInUse
           ELSE UNCHANGED <<mFreeBlocks, mBlocksInUse>>
        /\ callerBlocks' = [callerBlocks EXCEPT ![c] = @ \cup {Head(mBlocksInUse')}]
        /\ callerLocal' = [callerLocal EXCEPT ![c] = NoLocals]
        /\ callerAt' = [callerAt EXCEPT ![c] = "idle"]
    /\ mMutex' = Unlocked
    /\ UNCHANGED <<destroyed, mCurrentSize, allocCount, poolLog>>
    /\ UNCHANGED exceptPoolAndCallers

\* the MemoryBlock is handed to another thread, which will drop it
PassBlock ==
    /\ \E c \in Callers, other \in Callers, block \in BlocksOf(mBlocksInUse) :
        /\ c # other
        /\ callerAt[c] = "idle"
        /\ block \in callerBlocks[c]
        /\ callerBlocks' = [callerBlocks EXCEPT ![c] = @ \ {block},
                                                ![other] = @ \cup {block}]
    /\ UNCHANGED <<mMutex, callerAt, callerLocal, destroyed, poolVars>>
    /\ UNCHANGED exceptPoolAndCallers

\* the last reference to a MemoryBlock is dropped: ~MemoryBlock::Impl()
\* calls mPool->release(mBlock)
CallRelease ==
    /\ \E c \in Callers, block \in BlocksOf(mBlocksInUse) :
        /\ callerAt[c] = "idle"
        /\ block \in callerBlocks[c]
        /\ callerLocal' = [callerLocal EXCEPT ![c] = [size |-> block.mSize,
                                                       block |-> block]]
        /\ callerAt' = [callerAt EXCEPT ![c] = "release_lock"]
    /\ UNCHANGED <<mMutex, callerBlocks, destroyed, poolVars>>
    /\ UNCHANGED exceptPoolAndCallers

\* release: std::lock_guard<std::mutex> lock(mMutex);
ReleaseLocks ==
    /\ MutexFree(mMutex)
    /\ \E c \in Callers :
        /\ callerAt[c] = "release_lock"
        /\ mMutex' = c
        /\ callerAt' = [callerAt EXCEPT ![c] = "release_body"]
    /\ UNCHANGED <<callerLocal, callerBlocks, destroyed, poolVars>>
    /\ UNCHANGED exceptPoolAndCallers

\* release: the block goes to the front of the free blocks if it is of the
\* current size, otherwise it is erased; the lock_guard unlocks
ReleaseSplices ==
    /\ \E c \in Callers :
        /\ callerAt[c] = "release_body"
        /\ mBlocksInUse' = Erase(mBlocksInUse, callerLocal[c].block)
        /\ IF ReleaseKeeps(callerLocal[c].block, mCurrentSize)
           THEN /\ mFreeBlocks' = <<callerLocal[c].block>> \o mFreeBlocks
                /\ UNCHANGED destroyed
           ELSE /\ destroyed' = destroyed \cup {callerLocal[c].block}
                /\ UNCHANGED mFreeBlocks
        /\ callerBlocks' = [callerBlocks EXCEPT ![c] = @ \ {callerLocal[c].block}]
        /\ callerLocal' = [callerLocal EXCEPT ![c] = NoLocals]
        /\ callerAt' = [callerAt EXCEPT ![c] = "idle"]
    /\ mMutex' = Unlocked
    /\ UNCHANGED <<mCurrentSize, allocCount, poolLog>>
    /\ UNCHANGED exceptPoolAndCallers

CallersNext ==
    \/ CallFetch
    \/ FetchLocks
    \/ FetchTakes
    \/ FetchReturns
    \/ PassBlock
    \/ CallRelease
    \/ ReleaseLocks
    \/ ReleaseSplices

----------------------------------------------------------------------------
(* Specifications.                                                         *)

Init == ConvInit /\ PoolInit /\ BufferInit /\ MappedInit /\ CopyInit
        /\ JthreadInit /\ PowerInit /\ CallersInit

\* the converter alone
SpecConv == Init /\ [][ConvNext]_vars

\* the pool alone
SpecPool == Init /\ [][PoolNext]_vars

\* one Codec2Buffer alone
SpecBuffer == Init /\ [][BufferNext]_vars

\* the encrypted buffer and its MappedBlock alone
SpecMapped == Init /\ [][MappedNext]_vars

\* the image copies alone
SpecCopy == Init /\ [][CopyNext]_vars

\* one jthread, its callable and its owner alone; the scheduler lets the
\* callable's thread and the owner's thread run again and again
SpecJthread == Init /\ [][JthreadNext]_vars

FairJthread ==
    /\ SpecJthread
    /\ WF_vars(CallableTestsStop \/ CallableWorks \/ CallableReturns)
    /\ WF_vars(DtorRequestsStop \/ DtorJoins)

\* the sums of PowerStats alone
SpecPower == Init /\ [][PowerNext]_vars

\* the pool with its concurrent callers alone
SpecCallers == Init /\ [][CallersNext]_vars

Next ==
    \/ ConvNext
    \/ PoolNext
    \/ BufferNext
    \/ MappedNext
    \/ CopyNext
    \/ JthreadNext
    \/ PowerNext
    \/ CallersNext

Spec == Init /\ [][Next]_vars

----------------------------------------------------------------------------
(* Properties of the converter, checked under SpecConv.                    *)

\* a converter has been constructed and its initCheck() is not OK
Failed == conv # NoConv /\ conv.mInitCheck # OK

\* a converter has been constructed and its initCheck() is OK
Validated == conv # NoConv /\ conv.mInitCheck = OK

\* no buffer handed to setBackBuffer() has been written or had its range set
BuffersUntouched ==
    \A b \in BufIds : /\ ~bufWritten[b]
                      /\ bufRange[b] = [offset |-> 0, size |-> BufCapacity[b]]

\* C1 as the specification states it: on a failed converter wrap() returns
\* null, setBackBuffer() returns false for every buffer, backBufferSize()
\* is 0 and copyToMediaImage() returns an error and copies nothing.
C1_FailedIsNoOp ==
    Failed =>
        /\ ret.op = "wrap" => ret.val = NULL
        /\ ret.op = "setBackBuffer" => ret.val = FALSE
        /\ ret.op = "backBufferSize" => ret.val = 0
        /\ ret.op = "copyToMediaImage" => ret.val # OK
        /\ conv.mBackBuffer = NULL
        /\ BuffersUntouched

\* C1, amended: on a failed converter backBufferSize() is 0 and
\* copyToMediaImage() returns the initCheck() status and writes no buffer;
\* setBackBuffer() returns false for the null buffer only (any other buffer
\* is adopted, with the range (0, 0)), and wrap() returns the buffer the
\* constructor wrapped before the plane validation failed, if it wrapped
\* one and no backing buffer has been adopted since.
C1_FailedConverter ==
    Failed =>
        /\ conv.mBackBufferSize = 0
        /\ ret.op = "backBufferSize" => ret.val = 0
        /\ ret.op = "copyToMediaImage" =>
              ret.val = conv.mInitCheck /\ ret.val \in {BAD_VALUE, NO_INIT}
        /\ \A b \in BufIds : ~bufWritten[b]
        /\ ret.op = "setBackBuffer" =>
              /\ ret.val = (ret.arg # NULL)
              /\ ret.val => /\ conv.mBackBuffer = ret.arg
                            /\ bufRange[ret.arg.id] = [offset |-> 0, size |-> 0]
        /\ ret.op = "wrap" =>
              ret.val = IF adopted THEN NULL ELSE conv.mWrapped

\* a failed converter that had wrapped its view has adopted a buffer and
\* then refused to copy
C1_Witness ==
    /\ Failed
    /\ conv.mWrapped # NULL
    /\ conv.mBackBuffer # NULL
    /\ bufRange[conv.mBackBuffer.id] = [offset |-> 0, size |-> 0]
    /\ ret.op = "copyToMediaImage"
    /\ ret.val = BAD_VALUE

\* C2 as the specification states it: a converter whose wrapping succeeded
\* rejects setBackBuffer() and never holds a backing buffer.
C2_WrappedRejectsBackBuffer ==
    (Validated /\ conv.mWrapped # NULL) =>
        /\ ret.op = "setBackBuffer" => ret.val = FALSE
        /\ conv.mBackBuffer = NULL

\* C2, amended: setBackBuffer() on a converter whose wrapping succeeded
\* makes the same checks as on any other: it adopts every non-null buffer
\* of sufficient capacity, and the instance then holds both its wrapped
\* buffer and the backing buffer, and wrap() returns null from then on.
C2_WrappedAdoptsBackBuffer ==
    (Validated /\ conv.mWrapped # NULL) =>
        /\ ret.op = "setBackBuffer" =>
              /\ ret.val = (/\ ret.arg # NULL
                            /\ BufCapacity[ret.arg.id] >= conv.mBackBufferSize)
              /\ ret.val => conv.mBackBuffer = ret.arg
        /\ adopted = (conv.mBackBuffer # NULL)
        /\ (adopted /\ ret.op = "wrap") => ret.val = NULL

\* a validated converter that wrapped its view has just adopted a buffer
C2_Witness ==
    /\ Validated
    /\ conv.mWrapped # NULL
    /\ ret.op = "setBackBuffer"
    /\ ret.val = TRUE
    /\ conv.mBackBuffer = ret.arg

\* the least of the plane data pointers of a view
MinPlanePtr(view) ==
    SetMin({view.data[i] : i \in 0..(view.layout.numPlanes - 1)})

\* the addresses of the first byte of the samples of plane i of a view
SampleAddrs(view, i) ==
    LET plane == view.layout.planes[i]
    IN  {view.data[i] + x * plane.colInc + y * plane.rowInc :
            x \in 0..((view.width \div plane.colSampling) - 1),
            y \in 0..((view.height \div plane.rowSampling) - 1)}

NegativeIncrement(view) ==
    \E i \in 0..(view.layout.numPlanes - 1) :
        \/ view.layout.planes[i].colInc < 0
        \/ view.layout.planes[i].rowInc < 0

\* C4 as the specification states it: wrap() returns null whenever copy
\* was requested or a plane has a negative column or row increment.
C4_CopyOrNegativeNeverWraps ==
    (conv # NoConv /\ (ctorArgs.copy \/ NegativeIncrement(conv.mView))) =>
        (ret.op = "wrap" => ret.val = NULL)

\* C4, amended: wrap() returns null whenever copy was requested, and
\* whenever the one plane of a layout that is neither YUV, YUVA, RGB nor
\* RGBA has a negative increment; a negative increment in a YUV, RGB or
\* RGBA layout disables wrapping only where it puts a sample below
\* data()[0].
C4_CopyNeverWraps ==
    conv # NoConv =>
        LET view == conv.mView
            singlePlaneNegative ==
                /\ view.layout.type \notin {"YUV", "YUVA", "RGB", "RGBA"}
                /\ NegativeIncrement(view)
            belowData0 ==
                \E i \in 0..(view.layout.numPlanes - 1) :
                    \E a \in SampleAddrs(view, i) : a < view.data[0]
        IN  (ctorArgs.copy \/ singlePlaneNegative \/ belowData0) =>
                /\ conv.mWrapped = NULL
                /\ ret.op = "wrap" => ret.val = NULL

\* wrap() has returned null on a validated converter made for copying,
\* whose view passes the wrapping test
C4_Witness ==
    /\ Validated
    /\ ctorArgs.copy
    /\ ~NegativeIncrement(conv.mView)
    /\ LET ext == WrapExtent(conv.mView, conv.mAllocatedDepth)
       IN  ext.minPtr = conv.mView.data[0]
           /\ ext.maxPtr - ext.minPtr <= ext.planeSize
    /\ ret.op = "wrap"
    /\ ret.val = NULL

\* C5: wrap() returns a buffer only if the constructor was not asked to
\* copy, its wrapping test passed on the view and no setBackBuffer() has
\* succeeded on the instance; after a successful setBackBuffer() every
\* wrap() returns null.
C5_WrapOnlyWithoutBackBuffer ==
    /\ (ret.op = "wrap" /\ ret.val # NULL) =>
          LET ext == WrapExtent(conv.mView, conv.mAllocatedDepth)
          IN  /\ ~adopted
              /\ conv.mBackBuffer = NULL
              /\ ~ctorArgs.copy
              /\ ext.minPtr = conv.mView.data[0]
              /\ ext.maxPtr - ext.minPtr <= ext.planeSize
              /\ ret.val = [id |-> "wrapped", base |-> ext.minPtr,
                            capacity |-> ext.maxPtr - ext.minPtr]
    /\ (ret.op = "wrap" /\ adopted) => ret.val = NULL

\* wrap() has returned null on a converter that wrapped its view and
\* adopted a backing buffer afterwards
C5_Witness ==
    /\ Validated
    /\ conv.mWrapped # NULL
    /\ adopted
    /\ ret.op = "wrap"
    /\ ret.val = NULL

\* C6: a setBackBuffer(buffer) call returns true exactly when buffer is
\* not null and its capacity is at least backBufferSize(); when it returns
\* true the converter holds the buffer and the buffer's range is
\* (0, backBufferSize()), nothing else changing; when it returns false the
\* converter, the buffer it held and every buffer's range are unchanged.
C6_SetBackBuffer ==
    [][ret'.op = "setBackBuffer" =>
          LET b == ret'.arg
              fits == /\ b # NULL
                      /\ BufCapacity[b.id] >= conv.mBackBufferSize
          IN  /\ ret'.val = fits
              /\ fits =>
                    /\ conv' = [conv EXCEPT !.mBackBuffer = b]
                    /\ bufRange' = [bufRange EXCEPT ![b.id] =
                                       [offset |-> 0,
                                        size |-> conv.mBackBufferSize]]
              /\ ~fits => /\ conv' = conv
                          /\ bufRange' = bufRange
                          /\ adopted' = adopted]_vars

\* setBackBuffer() has rejected a buffer that is too small, after it had
\* adopted a larger one, which the converter still holds
C6_Witness ==
    /\ Validated
    /\ conv.mBackBufferSize > BufCapacity.small
    /\ ret = [op |-> "setBackBuffer", arg |-> [id |-> "small"], val |-> FALSE]
    /\ conv.mBackBuffer = [id |-> "large"]
    /\ bufRange.large = [offset |-> 0, size |-> conv.mBackBufferSize]
    /\ bufRange.small = [offset |-> 0, size |-> BufCapacity.small]

\* the bit depth the client colour format implies for a YUV source
ImpliedDepth(fmt) ==
    IF fmt = "YUVP010" THEN {10}
    ELSE IF fmt \in Yuv8BitFormats THEN {8}
    ELSE {}

\* the shapes of C7, of a view and a client colour format
UnsupportedShape(view, fmt) ==
    LET layout == view.layout
    IN  \/ view.error # C2_OK
        \/ layout.numPlanes = 0
        \/ /\ layout.type = "YUV"
           /\ \/ layout.numPlanes # 3
              \/ layout.planes[0].channel # "Y"
              \/ layout.planes[1].channel # "CB"
              \/ layout.planes[2].channel # "CR"
              \/ \E d \in ImpliedDepth(fmt), i \in 0..2 :
                    layout.planes[i].bitDepth # d
        \/ /\ layout.type = "RGB"
           /\ (layout.numPlanes # 3 \/ fmt \notin RgbFormats)
        \/ /\ layout.type = "RGBA"
           /\ (layout.numPlanes # 4 \/ fmt \notin RgbaFormats)
        \/ layout.type = "YUVA"

\* C7: construction on a view reporting an error, without planes, of a
\* YUV layout without exactly 3 planes or with channels other than Y, Cb,
\* Cr in that order, of an RGB layout without 3 planes or an RGBA layout
\* without 4 planes or with a client colour format not accepted for it, of
\* a YUVA layout, or of a YUV layout whose bit depth is not the one the
\* client colour format implies, ends with initCheck() != OK.
C7_UnsupportedShapesFail ==
    (conv # NoConv /\ UnsupportedShape(conv.mView, conv.mClientColorFormat))
        => conv.mInitCheck \in {BAD_VALUE, NO_INIT}

\* a converter constructed with YUVP010 on a YUV view of bit depth 8 has
\* reported its initCheck() status from copyToMediaImage()
C7_Witness ==
    /\ conv # NoConv
    /\ conv.mView.error = C2_OK
    /\ conv.mView.layout.type = "YUV"
    /\ conv.mView.layout.numPlanes = 3
    /\ conv.mClientColorFormat = "YUVP010"
    /\ conv.mView.layout.planes[0].bitDepth = 8
    /\ conv.mInitCheck = BAD_VALUE
    /\ ret = [op |-> "copyToMediaImage", val |-> BAD_VALUE]

\* C8: a converter whose initCheck() is OK has a view whose every plane has
\* bitDepth <= allocatedDepth, rightShift = allocatedDepth - bitDepth,
\* native endianness if allocatedDepth > 8, and the allocatedDepth and
\* bitDepth of every other plane.
C8_ValidatedPlanes ==
    Validated =>
        LET planes == conv.mView.layout.planes
            P == 0..(conv.mView.layout.numPlanes - 1)
        IN  \A i \in P :
              /\ planes[i].bitDepth <= planes[i].allocatedDepth
              /\ planes[i].rightShift =
                    planes[i].allocatedDepth - planes[i].bitDepth
              /\ planes[i].allocatedDepth > 8 =>
                    planes[i].endianness = "NATIVE"
              /\ \A j \in P :
                    /\ planes[i].allocatedDepth = planes[j].allocatedDepth
                    /\ planes[i].bitDepth = planes[j].bitDepth

\* a converter on a view of 16-bit planes holding 10 bits is validated
C8_Witness ==
    /\ Validated
    /\ conv.mView.layout.numPlanes = 3
    /\ \A i \in 0..2 : /\ conv.mView.layout.planes[i].allocatedDepth = 16
                       /\ conv.mView.layout.planes[i].bitDepth = 10
                       /\ conv.mView.layout.planes[i].rightShift = 6
    /\ conv.mBackBufferSize > 0
    /\ ret.op = "backBufferSize"
    /\ ret.val = conv.mBackBufferSize

----------------------------------------------------------------------------
(* Properties of the pool, checked under SpecPool.                         *)

\* C9: every fetch(size), whatever fetches and releases came before it,
\* has returned a block whose size() is size.
C9_FetchReturnsRequestedSize ==
    \A i \in 1..Len(poolLog) :
        poolLog[i].op = "fetch" => poolLog[i].block.mSize = poolLog[i].size

\* a fetch has returned a block that had been fetched and released before,
\* after a fetch of another size
C9_Witness ==
    \E i, j \in 1..Len(poolLog) :
        /\ i < j
        /\ poolLog[i].op = "fetch"
        /\ poolLog[j].op = "fetch"
        /\ poolLog[i].size # poolLog[j].size
        /\ ~poolLog[j].fresh
        /\ poolLog[j].block.mSize = poolLog[j].size

\* poolLog[i .. i + 4] is fetch(a), the release of its block, fetch(b) with
\* b # a, the release of its block, and fetch(a)
EvictionSequence(i) ==
    /\ i + 4 <= Len(poolLog)
    /\ poolLog[i].op = "fetch"
    /\ poolLog[i + 1].op = "release"
    /\ poolLog[i + 1].block = poolLog[i].block
    /\ poolLog[i + 2].op = "fetch"
    /\ poolLog[i + 2].size # poolLog[i].size
    /\ poolLog[i + 3].op = "release"
    /\ poolLog[i + 3].block = poolLog[i + 2].block
    /\ poolLog[i + 4].op = "fetch"
    /\ poolLog[i + 4].size = poolLog[i].size

\* C10: in fetch(a), release, fetch(b), release, fetch(a) with a # b the
\* third fetch allocates: its block is a new one, neither the block of the
\* first fetch nor any block fetched before.
C10_ThirdFetchAllocates ==
    \A i \in 1..Len(poolLog) :
        EvictionSequence(i) =>
            /\ poolLog[i + 4].fresh
            /\ poolLog[i + 4].block # poolLog[i].block
            /\ \A j \in 1..(i + 3) :
                  poolLog[j].op = "fetch" =>
                      poolLog[j].block.id # poolLog[i + 4].block.id

\* the five operations have been made, and the second fetch allocated too
C10_Witness ==
    \E i \in 1..Len(poolLog) :
        /\ EvictionSequence(i)
        /\ poolLog[i + 2].fresh
        /\ poolLog[i + 4].fresh
        /\ mFreeBlocks = <<>>

\* C11: in fetch(s), the release of its block, fetch(s), the second fetch
\* returns the block of the first, and allocates nothing.
C11_RefetchReusesBlock ==
    \A i \in 1..Len(poolLog) :
        (/\ i + 2 <= Len(poolLog)
         /\ poolLog[i].op = "fetch"
         /\ poolLog[i + 1].op = "release"
         /\ poolLog[i + 1].block = poolLog[i].block
         /\ poolLog[i + 2].op = "fetch"
         /\ poolLog[i + 2].size = poolLog[i].size)
        => /\ ~poolLog[i + 2].fresh
           /\ poolLog[i + 2].block = poolLog[i].block

\* the three calls have been made last, on a pool that had allocated a
\* block of another size before; the block of the first is in use again
C11_Witness ==
    /\ Len(poolLog) >= 4
    /\ LET n == Len(poolLog)
       IN  /\ poolLog[1].op = "fetch"
           /\ poolLog[n - 2].op = "fetch"
           /\ poolLog[1].size # poolLog[n - 2].size
           /\ poolLog[n - 2].fresh
           /\ poolLog[n - 1] = [op |-> "release", block |-> poolLog[n - 2].block]
           /\ poolLog[n].op = "fetch"
           /\ poolLog[n].size = poolLog[n - 2].size
           /\ ~poolLog[n].fresh
           /\ Head(mBlocksInUse) = poolLog[n - 2].block

\* C12: every free block has the size of the last fetch; a block just
\* released is free iff its size is that size, and is in neither list
\* otherwise; after a fetch no free block has another size than the one
\* fetched.
C12_FreeBlocksHaveCurrentSize ==
    /\ \A k \in 1..Len(mFreeBlocks) : mFreeBlocks[k].mSize = mCurrentSize
    /\ Len(poolLog) > 0 =>
          LET last == poolLog[Len(poolLog)]
              free == {mFreeBlocks[k] : k \in 1..Len(mFreeBlocks)}
              inUse == {mBlocksInUse[k] : k \in 1..Len(mBlocksInUse)}
          IN  /\ last.op = "release" =>
                    /\ (last.block \in free) = (last.block.mSize = mCurrentSize)
                    /\ last.block \notin inUse
              /\ last.op = "fetch" =>
                    /\ mCurrentSize = last.size
                    /\ last.block \in inUse
                    /\ last.block \notin free

\* a block of a size other than the current one has just been released and
\* destroyed, while a block of the current size is free
C12_Witness ==
    /\ Len(poolLog) > 0
    /\ poolLog[Len(poolLog)].op = "release"
    /\ poolLog[Len(poolLog)].block.mSize # mCurrentSize
    /\ mFreeBlocks # <<>>
    /\ \A k \in 1..Len(mFreeBlocks) :
          mFreeBlocks[k] # poolLog[Len(poolLog)].block

----------------------------------------------------------------------------
(* Claims about the Codec2Buffer variants.                                 *)

\* C13: a copy() that returns false, on any variant, leaves the range of
\* the buffer, the C2Buffer reference it holds and its image data as they
\* were before the call.
C13_FailedCopyChangesNothing ==
    [][(bufferRet'.op = "copy" /\ bufferRet'.val = FALSE) =>
          /\ codec2Buffer'.offset = codec2Buffer.offset
          /\ codec2Buffer'.size = codec2Buffer.size
          /\ codec2Buffer'.mBufferRef = codec2Buffer.mBufferRef
          /\ codec2Buffer'.mImageData = codec2Buffer.mImageData
          /\ codec2Buffer'.mView = codec2Buffer.mView]_vars

\* copy() on a linear buffer with a non-empty range has returned false for
\* a source that maps to more bytes than the buffer has
C13_Witness ==
    /\ bufferRet.op = "copy"
    /\ bufferRet.val = FALSE
    /\ codec2Buffer.kind \in LinearKinds
    /\ codec2Buffer.size > 0
    /\ bufferRet.arg.error = C2_OK
    /\ bufferRet.arg.viewCapacity > codec2Buffer.capacity

\* C14: on a linear buffer canCopy() is false for a source whose block is
\* declared larger than capacity(), and no copy() has written more than
\* capacity() bytes or set a range that ends after capacity(), also for a
\* source that maps to more bytes than its block declares.
C14_CopyStaysWithinCapacity ==
    codec2Buffer # NoBuffer /\ codec2Buffer.kind \in LinearKinds =>
        /\ codec2Buffer.written <= codec2Buffer.capacity
        /\ codec2Buffer.offset + codec2Buffer.size <= codec2Buffer.capacity
        /\ ( /\ bufferRet.op = "canCopy"
             /\ bufferRet.arg # NULL
             /\ bufferRet.arg.linearBlocks > 0
             /\ bufferRet.arg.size > codec2Buffer.capacity )
           => bufferRet.val = FALSE

\* after a copy that wrote bytes, copy() has refused a source whose block
\* is declared to fit and maps to more bytes than capacity()
C14_Witness ==
    /\ codec2Buffer # NoBuffer
    /\ codec2Buffer.kind \in LinearKinds
    /\ codec2Buffer.written > 0
    /\ bufferRet.op = "copy"
    /\ bufferRet.val = FALSE
    /\ bufferRet.arg.linearBlocks = 1
    /\ bufferRet.arg.error = C2_OK
    /\ bufferRet.arg.size <= codec2Buffer.capacity
    /\ bufferRet.arg.viewCapacity > codec2Buffer.capacity

\* the source of the last call is a linear buffer with a block that is not
\* empty and maps with an error or to more bytes than the Codec2Buffer has
MapsBadly ==
    /\ bufferRet.arg # NULL
    /\ bufferRet.arg.linearBlocks > 0
    /\ bufferRet.arg.size > 0
    /\ \/ bufferRet.arg.error # C2_OK
       \/ bufferRet.arg.viewCapacity > codec2Buffer.capacity

\* C15 as stated: a copy(b) that follows a canCopy(b) that returned true
\* returns true.
C15_CopyFollowsCanCopy ==
    (bufferRet.op = "copy" /\ bufferRet.afterCanCopy) => bufferRet.val

\* C15: a copy(b) that follows a canCopy(b) that returned true returns
\* true, except on a linear buffer when the block of b maps with an error
\* or to more bytes than capacity(): then it returns false.
C15_CopyFollowsCanCopyUnlessMapFails ==
    (bufferRet.op = "copy" /\ bufferRet.afterCanCopy) =>
        bufferRet.val = ~(codec2Buffer.kind \in LinearKinds /\ MapsBadly)

\* a const graphic buffer has copied the one block of a graphic buffer
\* after canCopy returned true for it
C15_Witness ==
    /\ bufferRet.op = "copy"
    /\ bufferRet.afterCanCopy
    /\ bufferRet.val
    /\ codec2Buffer.kind = "ConstGraphicBlockBuffer"
    /\ bufferRet.arg # NULL
    /\ bufferRet.arg.graphicBlocks = 1
    /\ codec2Buffer.mBufferRef = bufferRet.arg

\* the variants that are built on a block and share it in asC2Buffer()
BlockKinds == {"LinearBlockBuffer", "GraphicBlockBuffer"}

\* C16 as stated, on the variants that hold a C2Buffer reference: once
\* clearC2BufferRefs() has been called, every asC2Buffer() returns null.
C16_NullAfterClear ==
    [][( /\ bufferRet'.op = "asC2Buffer"
         /\ codec2Buffer.kind \in RefKinds
         /\ codec2Buffer.cleared # "never" )
       => bufferRet'.val = NULL]_vars

\* C16: a second clearC2BufferRefs() in a row changes nothing; after
\* clearC2BufferRefs() asC2Buffer() returns null on the variants that hold
\* a C2Buffer reference until a copy() stores a buffer again, keeps
\* returning null on a LocalLinearBuffer, and keeps returning a share of
\* the block on the variants built on a block.
C16_ClearDropsHeldReference ==
    [][ /\ ( /\ bufferRet.op = "clearC2BufferRefs"
             /\ bufferRet'.op = "clearC2BufferRefs" )
           => codec2Buffer' = codec2Buffer
        /\ ( /\ bufferRet'.op = "asC2Buffer"
             /\ codec2Buffer.cleared = "cleared" )
           => bufferRet'.val =
                 IF codec2Buffer.kind \in BlockKinds
                 THEN SharedBlock ELSE NULL ]_vars

\* asC2Buffer() has returned null on a ConstGraphicBlockBuffer that was
\* made of a graphic buffer and then cleared
C16_Witness ==
    /\ bufferRet.op = "asC2Buffer"
    /\ bufferRet.val = NULL
    /\ codec2Buffer.kind = "ConstGraphicBlockBuffer"
    /\ codec2Buffer.cleared = "cleared"
    /\ codec2Buffer.mImageData # NULL

\* the plane copy the last call made reported a failure
CopyFailed == bufferRet.status \notin {"none", OK}

\* C17: when the plane copy into the backing store reports a failure,
\* ConstGraphicBlockBuffer::Allocate returns null, and
\* ConstGraphicBlockBuffer::copy returns false and does not adopt the
\* buffer.
C17_FailedCopyYieldsNoBuffer ==
    /\ (bufferRet.op = "Allocate" /\ CopyFailed) =>
          /\ bufferRet.val = NULL
          /\ codec2Buffer = NoBuffer
    /\ (bufferRet.op = "copy" /\ CopyFailed) =>
          /\ bufferRet.val = FALSE
          /\ codec2Buffer.mBufferRef = NULL

\* copy() on a ConstGraphicBlockBuffer has returned true and adopted the
\* buffer although the plane copy reported BAD_VALUE
C17_Witness ==
    /\ bufferRet.op = "copy"
    /\ bufferRet.status = BAD_VALUE
    /\ bufferRet.val = TRUE
    /\ codec2Buffer.kind = "ConstGraphicBlockBuffer"
    /\ codec2Buffer.mBufferRef = bufferRet.arg
    /\ codec2Buffer.basePixels # "source"

\* asC2Buffer() is called on a GraphicBlockBuffer in this step
SharesGraphicBlock ==
    /\ bufferRet'.op = "asC2Buffer"
    /\ codec2Buffer.kind = "GraphicBlockBuffer"

\* C18 as stated: asC2Buffer() of a GraphicBlockBuffer that is not wrapped
\* copies the pixels of the mapped view into the backing store.
C18_CopiesViewToBackingStore ==
    [][(SharesGraphicBlock /\ ~codec2Buffer.mWrapped /\ bufferRet'.status = OK)
          => codec2Buffer'.basePixels = codec2Buffer.viewPixels]_vars

\* C18: asC2Buffer() of a GraphicBlockBuffer returns a share of the block;
\* when the buffer is not wrapped it first copies the pixels of the backing
\* store into the mapped view, and shares the block also when this copy
\* fails; it never writes the backing store, and when the buffer is wrapped
\* it copies nothing.
C18_CopiesBackingStoreToView ==
    [][SharesGraphicBlock =>
          /\ bufferRet'.val = SharedBlock
          /\ codec2Buffer'.basePixels = codec2Buffer.basePixels
          /\ IF codec2Buffer.mWrapped
             THEN /\ bufferRet'.status = "none"
                  /\ codec2Buffer'.viewPixels = codec2Buffer.viewPixels
             ELSE /\ bufferRet'.status \in {OK, BAD_VALUE}
                  /\ bufferRet'.status = OK =>
                        codec2Buffer'.viewPixels = codec2Buffer.basePixels
                  /\ bufferRet'.status = BAD_VALUE =>
                        codec2Buffer'.viewPixels
                            \in {codec2Buffer.viewPixels, "partial"}]_vars

\* asC2Buffer() of a GraphicBlockBuffer that is not wrapped has copied what
\* the client wrote in the backing store into the view of the block
C18_Witness ==
    /\ bufferRet.op = "asC2Buffer"
    /\ bufferRet.status = OK
    /\ codec2Buffer.kind = "GraphicBlockBuffer"
    /\ ~codec2Buffer.mWrapped
    /\ codec2Buffer.basePixels = "client"
    /\ codec2Buffer.viewPixels = "client"

\* the source of the call made in this step is absent, has no linear block
\* or has a first linear block of size zero
NothingToCopy ==
    \/ bufferRet'.arg = NULL
    \/ bufferRet'.arg.linearBlocks = 0
    \/ bufferRet'.arg.size = 0

\* C19: on a linear buffer canCopy() is true exactly when base() is not
\* null and the source is absent, or is linear without a block, or is
\* linear with one block of a size within capacity(); copy() of a source
\* that is absent, without a block or of size zero returns true and only
\* sets the range to (0, 0).
C19_LinearCanCopy ==
    [][codec2Buffer # NoBuffer /\ codec2Buffer.kind \in LinearKinds =>
          /\ bufferRet'.op = "canCopy" =>
                bufferRet'.val =
                    ( /\ codec2Buffer.hasBase
                      /\ \/ bufferRet'.arg = NULL
                         \/ /\ bufferRet'.arg.type = "LINEAR"
                            /\ \/ bufferRet'.arg.linearBlocks = 0
                               \/ /\ bufferRet'.arg.linearBlocks = 1
                                  /\ bufferRet'.arg.size
                                        <= codec2Buffer.capacity )
          /\ (bufferRet'.op = "copy" /\ NothingToCopy) =>
                /\ bufferRet'.val = TRUE
                /\ codec2Buffer' =
                      [codec2Buffer EXCEPT !.offset = 0, !.size = 0]]_vars

\* canCopy() has returned true on a linear buffer for a one-block source
\* as large as the buffer
C19_Witness ==
    /\ bufferRet.op = "canCopy"
    /\ bufferRet.val = TRUE
    /\ codec2Buffer.kind \in LinearKinds
    /\ bufferRet.arg # NULL
    /\ bufferRet.arg.linearBlocks = 1
    /\ bufferRet.arg.size = codec2Buffer.capacity
    /\ codec2Buffer.capacity > 0

\* copy() of a graphic buffer has just returned true on a
\* ConstGraphicBlockBuffer
CopiedGraphic ==
    /\ codec2Buffer.kind = "ConstGraphicBlockBuffer"
    /\ bufferRet.op = "copy"
    /\ bufferRet.val
    /\ bufferRet.arg # NULL
    /\ bufferRet.arg.type = "GRAPHIC"

\* C20 as stated: a canCopy() that follows the successful copy() of a
\* non-null graphic buffer on a ConstGraphicBlockBuffer returns false.
C20_CanCopyFalseAfterCopy ==
    [][(CopiedGraphic /\ bufferRet'.op = "canCopy")
          => bufferRet'.val = FALSE]_vars

\* C20: canCopy() of a ConstGraphicBlockBuffer that is wrapped or holds a
\* buffer reference returns false for every source; a successful copy() of
\* a graphic buffer with a block leaves the buffer holding a reference, and
\* a reference held stays until clearC2BufferRefs() is called.
C20_CanCopyFalseWhileReferenceHeld ==
    [][codec2Buffer # NoBuffer
       /\ codec2Buffer.kind = "ConstGraphicBlockBuffer" =>
          /\ ( /\ bufferRet'.op = "canCopy"
               /\ codec2Buffer.mWrapped \/ codec2Buffer.mBufferRef # NULL )
             => bufferRet'.val = FALSE
          /\ ( /\ bufferRet'.op = "copy"
               /\ bufferRet'.val
               /\ bufferRet'.arg # NULL
               /\ bufferRet'.arg.graphicBlocks > 0 )
             => codec2Buffer'.mBufferRef = bufferRet'.arg
          /\ ( /\ codec2Buffer.mBufferRef # NULL
               /\ bufferRet'.op # "clearC2BufferRefs" )
             => codec2Buffer'.mBufferRef # NULL
          /\ codec2Buffer'.mWrapped = codec2Buffer.mWrapped]_vars

\* canCopy() has returned false for an absent source on a
\* ConstGraphicBlockBuffer that is not wrapped and holds the buffer a copy()
\* stored after clearC2BufferRefs()
C20_Witness ==
    /\ bufferRet.op = "canCopy"
    /\ bufferRet.val = FALSE
    /\ bufferRet.arg = NULL
    /\ codec2Buffer.kind = "ConstGraphicBlockBuffer"
    /\ ~codec2Buffer.mWrapped
    /\ codec2Buffer.mBufferRef # NULL
    /\ codec2Buffer.cleared = "refilled"

\* C21: on a DummyContainerBuffer canCopy() is true exactly when no buffer
\* is held, whatever its argument; copy(b) returns true and stores b, sets
\* the range to (0, 1) for a buffer and to (0, 0) for none, and writes no
\* byte; asC2Buffer() returns the buffer held, which right after copy(b)
\* is b.
C21_DummyAdoptsReference ==
    [][codec2Buffer # NoBuffer
       /\ codec2Buffer.kind = "DummyContainerBuffer" =>
          /\ bufferRet'.op = "canCopy" =>
                bufferRet'.val = (codec2Buffer.mBufferRef = NULL)
          /\ bufferRet'.op = "copy" =>
                /\ bufferRet'.val = TRUE
                /\ codec2Buffer'.mBufferRef = bufferRet'.arg
                /\ codec2Buffer'.offset = 0
                /\ codec2Buffer'.size =
                      IF bufferRet'.arg # NULL THEN 1 ELSE 0
                /\ codec2Buffer'.written = codec2Buffer.written
                /\ codec2Buffer'.basePixels = codec2Buffer.basePixels
          /\ bufferRet'.op = "asC2Buffer" =>
                /\ bufferRet'.val = codec2Buffer.mBufferRef
                /\ bufferRet.op = "copy" => bufferRet'.val = bufferRet.arg]_vars

\* asC2Buffer() has returned the buffer a copy() stored in a
\* DummyContainerBuffer after clearC2BufferRefs(); no byte was written
C21_Witness ==
    /\ bufferRet.op = "asC2Buffer"
    /\ bufferRet.val # NULL
    /\ codec2Buffer.kind = "DummyContainerBuffer"
    /\ codec2Buffer.cleared = "refilled"
    /\ codec2Buffer.size = 1
    /\ codec2Buffer.written = 0

----------------------------------------------------------------------------
(* Claims about the encrypted buffer's MappedBlock, checked under          *)
(* SpecMapped.                                                             *)

\* C22: each MappedBlock::copyDecryptedContent(decrypted, length) that
\* returns true writes length bytes at the cursor and advances the cursor
\* of the sub-view by length; one that returns false leaves cursor and block
\* alone; the destructor leaves the dying sub-view with its cursor at 0, and
\* a sub-view obtained from getMappedBlock() starts with its cursor at 0
\* whatever was written through earlier sub-views.
C22_MappedCursorAdvancesAndResets ==
    [][/\ mappedRet'.op = "MappedBlock::copyDecryptedContent" /\ copies' # copies
          => IF mappedRet'.val
             THEN /\ mappedBlock'.offset = mappedBlock.offset + mappedRet'.length
                  /\ \A i \in DOMAIN blockBytes :
                        blockBytes'[i] =
                            IF /\ i >= mappedBlock.offset
                               /\ i < mappedBlock.offset + mappedRet'.length
                            THEN copies' ELSE blockBytes[i]
             ELSE /\ mappedBlock'.offset = mappedBlock.offset
                  /\ blockBytes' = blockBytes
       /\ mappedRet'.op = "~MappedBlock" /\ mappedBlock # NoMapped
          => mappedRet'.view.offset = 0 /\ mappedBlock' = NoMapped
       /\ mappedRet'.op = "getMappedBlock" /\ mappedBlock = NoMapped
          => mappedBlock'.offset = 0]_vars

\* a second sub-view over a block that an earlier sub-view, since destroyed,
\* wrote two bytes into has copied one byte with success
C22_Witness ==
    /\ mappedBlock # NoMapped
    /\ mappedRet.op = "MappedBlock::copyDecryptedContent"
    /\ mappedRet.val
    /\ mappedRet.length = 1
    /\ mappedBlock.offset = 1
    /\ blockBytes[0] = 2
    /\ blockBytes[1] = 1

----------------------------------------------------------------------------
(* Claims about ImageCopy byte by byte, checked under SpecCopy.            *)

\* C23: round trip.  For a view in a canonical layout (NV12, NV21, I420,
\* P010) and a flat image of the same width and height in a canonical
\* format, when ImageCopy view -> image and then ImageCopy image -> view
\* have returned OK, every byte of every sample of every plane of the view
\* written into is the byte the original view holds at that place.
C23_RoundTripIdentity ==
    /\ copyJob # NoJob
    /\ copyRet.op = "ImageCopy(view, imgBase, img)"
    /\ copyRet.status = OK
    /\ copyRet.forward = OK
    /\ ViewShape(copyJob.view.layout) # "generic" \/ IsP010View(copyJob.view.layout)
    /\ \/ ImageShape(copyJob.img) # "generic"
       \/ /\ copyJob.img.mType = "YUV"
          /\ copyJob.img.mBitDepth = 10
          /\ copyJob.img.mBitDepthAllocated = 16
          /\ copyJob.img.mPlane[0].mColInc = 2
          /\ copyJob.img.mPlane[1].mColInc = 4
          /\ copyJob.img.mPlane[2].mColInc = 4
    => LET view == copyJob.view
       IN  \A i \in 0..(view.layout.numPlanes - 1) :
             LET plane == view.layout.planes[i]
             IN  \A row \in 0..(divUp(view.height, plane.rowSampling) - 1),
                    col \in 0..(divUp(view.width, plane.colSampling) - 1),
                    k \in 0..(divUp(plane.allocatedDepth, 8) - 1) :
                    LET a == view.data[i] + row * plane.rowInc
                                          + col * plane.colInc + k
                    IN  BackByte(backData, a) = ViewByte(a)

\* an NV12 view one pixel wide has gone to an NV12 image and back, both
\* copies returned OK, and the Cr byte of the view written into is not the
\* original one
C23_Witness ==
    /\ copyJob # NoJob
    /\ copyRet.op = "ImageCopy(view, imgBase, img)"
    /\ copyRet.status = OK
    /\ copyRet.forward = OK
    /\ copyJob.view.width = 1
    /\ ViewShape(copyJob.view.layout) = "NV12"
    /\ ImageShape(copyJob.img) = "NV12"
    /\ BackByte(backData, copyJob.view.data[2]) # ViewByte(copyJob.view.data[2])
    /\ BackByte(backData, copyJob.view.data[1]) = ViewByte(copyJob.view.data[1])

\* C24: of IsNV12, IsNV21, IsI420 and IsP010 at most one holds of the layout
\* of a view, and of IsNV12, IsNV21 and IsI420 at most one holds of an image
\* descriptor; ImageCopy with a view or an image of which none holds goes
\* through the generic copy, not through libyuv.
C24_ClassifiersExclusive ==
    copyJob # NoJob =>
        LET layout == copyJob.view.layout
            img == copyJob.img
            ofView == {<<"NV12", IsNV12View(layout)>>, <<"NV21", IsNV21View(layout)>>,
                       <<"I420", IsI420View(layout)>>, <<"P010", IsP010View(layout)>>}
            viewIs == {c[1] : c \in {x \in ofView : x[2]}}
            ofImg == IF img = NULL THEN {}
                     ELSE {<<"NV12", IsNV12Img(img)>>, <<"NV21", IsNV21Img(img)>>,
                           <<"I420", IsI420Img(img)>>}
            imgIs == {c[1] : c \in {x \in ofImg : x[2]}}
        IN  /\ Cardinality(viewIs) <= 1
            /\ Cardinality(imgIs) <= 1
            /\ copyRet.op # "none" /\ (viewIs \subseteq {"P010"} \/ imgIs = {})
               => "libyuv" \notin copyRet.path

\* a copy has gone through the generic routine for a view that is none of
\* the four shapes although its planes are those of an NV12 buffer but for
\* the root plane of Cr, with an image that is NV12
C24_Witness ==
    /\ copyJob # NoJob
    /\ copyRet.op = "ImageCopy(imgBase, img, view)"
    /\ copyRet.status = OK
    /\ copyRet.path = {"plane", "pixel"}
    /\ IsNV12Img(copyJob.img)
    /\ IsYUV420View(copyJob.view.layout)
    /\ copyJob.view.layout.rootPlanes = 2
    /\ copyJob.view.layout.planes[PLANE_V].rootIx = PLANE_V
    /\ ~IsNV12View(copyJob.view.layout)
    /\ ~IsNV21View(copyJob.view.layout)
    /\ ~IsI420View(copyJob.view.layout)

\* C25: ImageCopy in either direction returns BAD_VALUE and stores nothing,
\* neither in the image nor in the view, when the image descriptor is null,
\* when the image base is null, or when the crop width or height of the
\* view is not the width or height of the image.
C25_InvalidArgumentsCopyNothing ==
    [][/\ copyJob # NoJob
       /\ copyRet'.op # "none"
       /\ \/ copyJob.img = NULL
          \/ copyJob.imgBase = NULL
          \/ copyJob.view.width # copyJob.img.mWidth
          \/ copyJob.view.height # copyJob.img.mHeight
       => /\ copyRet'.status = BAD_VALUE
          /\ imgData' = imgData
          /\ backData' = backData]_vars

\* both directions have returned BAD_VALUE for an image one row higher than
\* the view, and neither memory has been stored into
C25_Witness ==
    /\ copyJob # NoJob
    /\ copyJob.img # NULL
    /\ copyJob.img.mHeight = copyJob.view.height + 1
    /\ copyRet.op = "ImageCopy(view, imgBase, img)"
    /\ copyRet.status = BAD_VALUE
    /\ copyRet.forward = BAD_VALUE
    /\ imgData = <<>>
    /\ backData = <<>>

\* C28: a full copy through the generic routine moves the data.  When
\* ImageCopy is called with valid arguments, takes no libyuv branch and
\* every plane passes the checks of the generic routine, then for every
\* plane, every row below height / rowSampling and every column below
\* width / colSampling each byte of the destination sample is the byte of
\* the source sample at the same row and column; in both directions and
\* whichever of the three granularities (plane, row, pixel) a plane takes.
\* (Samples of the view that share a byte cannot both be written: such a
\* view is left out for the copy into the view.)
C28_GenericCopyMovesData ==
    [][/\ copyJob # NoJob
       /\ copyRet'.op # "none"
       /\ copyJob.img # NULL
       /\ copyJob.imgBase # NULL
       /\ copyJob.view.width = copyJob.img.mWidth
       /\ copyJob.view.height = copyJob.img.mHeight
       /\ ViewShape(copyJob.view.layout) = "generic"
            \/ ImageShape(copyJob.img) = "generic"
       /\ \A i \in 0..(copyJob.view.layout.numPlanes - 1) :
            ~PlaneIncompatible(copyJob.view.layout.planes[i], copyJob.img, i)
       => LET view == copyJob.view
              img == copyJob.img
              bpp == divUp(img.mBitDepthAllocated, 8)
              samples == UNION {{<<i, row, col, k>> :
                    row \in 0..((view.height \div view.layout.planes[i].rowSampling) - 1),
                    col \in 0..((view.width \div view.layout.planes[i].colSampling) - 1),
                    k \in 0..(bpp - 1)} : i \in 0..(view.layout.numPlanes - 1)}
              inView(s) == view.data[s[1]] + s[2] * view.layout.planes[s[1]].rowInc
                           + s[3] * view.layout.planes[s[1]].colInc + s[4]
              inImage(s) == img.mPlane[s[1]].mOffset + s[2] * img.mPlane[s[1]].mRowInc
                            + s[3] * img.mPlane[s[1]].mColInc + s[4]
          IN  IF copyRet'.op = "ImageCopy(imgBase, img, view)"
              THEN \A s \in samples :
                      ImgByte(imgData', inImage(s)) = ViewByte(inView(s))
              ELSE (\A s, t \in samples : inView(s) = inView(t) => s = t)
                   => \A s \in samples :
                        BackByte(backData', inView(s)) = ImgByte(imgData, inImage(s))]_vars

\* the generic copy of a single plane stored bottom-up (rowInc < 0, colInc
\* 1) into an image of one plane has crashed in memcpy
C28_Witness ==
    /\ copyJob # NoJob
    /\ copyRet.op = "ImageCopy(imgBase, img, view)"
    /\ copyRet.status = "SIGSEGV"
    /\ copyJob.view.layout.numPlanes = 1
    /\ copyJob.view.layout.planes[0].rowInc < 0
    /\ copyJob.view.layout.planes[0].colInc = 1
    /\ copyJob.img.mPlane[0].mColInc = 1
    /\ copyJob.img.mPlane[0].mRowInc > 0

----------------------------------------------------------------------------
(* Claims about jthread, checked under FairJthread.                        *)

\* C26: the destructor of a jthread whose callable loops until
\* stop_requested() requests the stop and returns only after the callable
\* has seen the request, left its loop and returned; it does return; and
\* once a stop has been requested, by request_stop() or by the destructor,
\* stop_requested() stays true.
C26_JthreadStopsAndJoins ==
    /\ [](owner = "destroyed"
            => thread_ = "returned" /\ is_stopped /\ cancellation_signal_)
    /\ [](owner = "joining" => cancellation_signal_)
    /\ [][cancellation_signal_ => cancellation_signal_']_vars
    /\ (owner = "joining") ~> (owner = "destroyed")

\* the jthread has been destroyed after its callable had counted and after
\* a request_stop() of the owner had returned true
C26_Witness ==
    /\ owner = "destroyed"
    /\ thread_ = "returned"
    /\ is_stopped
    /\ xCount > 2
    /\ stopRet = [val |-> TRUE]

----------------------------------------------------------------------------
(* Claims about PowerStats, checked under SpecPower.                       *)

\* C27 as stated: for any two PowerStats values a and b whose state
\* residency lists are of equal length and whose rail energy lists are of
\* equal length, a + b == b + a.
C27_AdditionCommutes ==
    powerSum # NoSum => powerSum.ab = powerSum.ba

\* C27 amended: a + b == b + a when, besides, the entries at each index
\* carry the same names or one of the two names is empty.
C27_AdditionCommutesOnSameNames ==
    /\ powerSum # NoSum
    /\ \A i \in DOMAIN powerSum.a.power_entity_state_residency :
        LET r == powerSum.a.power_entity_state_residency[i]
            s == powerSum.b.power_entity_state_residency[i]
        IN  /\ r.entity_name = s.entity_name \/ "" \in {r.entity_name, s.entity_name}
            /\ r.state_name = s.state_name \/ "" \in {r.state_name, s.state_name}
    /\ \A i \in DOMAIN powerSum.a.rail_energy :
        LET r == powerSum.a.rail_energy[i]
            s == powerSum.b.rail_energy[i]
        IN  /\ r.subsystem_name = s.subsystem_name
                \/ "" \in {r.subsystem_name, s.subsystem_name}
            /\ r.rail_name = s.rail_name \/ "" \in {r.rail_name, s.rail_name}
    => powerSum.ab = powerSum.ba

\* two values that differ in every part, with two state residencies of the
\* same entities (one of them named on one side only) and one rail each,
\* have been added in both orders
C27_Witness ==
    /\ powerSum # NoSum
    /\ powerSum.a.metadata # powerSum.b.metadata
    /\ powerSum.a.health_stats # powerSum.b.health_stats
    /\ Len(powerSum.a.power_entity_state_residency) = 2
    /\ powerSum.a.power_entity_state_residency[1].entity_name = ""
    /\ powerSum.b.power_entity_state_residency[1].entity_name = "CPU"
    /\ powerSum.a.power_entity_state_residency[2].entity_name = "GPU"
    /\ powerSum.b.power_entity_state_residency[2].entity_name = "GPU"
    /\ Len(powerSum.a.rail_energy) = 1
    /\ powerSum.ab = powerSum.ba
    /\ powerSum.ab.power_entity_state_residency[1].entry_count = 33
    /\ powerSum.ab.power_entity_state_residency[1].entity_name = "CPU"

----------------------------------------------------------------------------
(* The samples of the flat image and the backing buffer, under SpecConv.   *)

\* _ImageCopy's addressing of plane i of the converter's media image: one
\* past the last byte of the sample in the last row and the last column
PlaneEnd(c, i) ==
    LET plane == c.mMediaImage.mPlane[i]
        rows == c.mHeight \div plane.mVertSubsampling
        cols == c.mWidth \div plane.mHorizSubsampling
    IN  plane.mOffset + (rows - 1) * plane.mRowInc + (cols - 1) * plane.mColInc
            + divUp(c.mAllocatedDepth, 8)

\* the stores copyToMediaImage() makes: ImageCopy(mBackBuffer->base(),
\* getMediaImage(), mView), by their offsets from the base of the buffer
CopyToMediaImageStores(c) ==
    LET r == CopyViewToImage(ImgBase, c.mMediaImage, c.mView)
    IN  r.items \cup r.torn

\* C29: for every converter with initCheck() == OK that did not wrap, every
\* sample addressed through the plane descriptors of the flat image lies
\* inside the required backing buffer (offset + (rows-1)*rowInc +
\* (cols-1)*colInc + bytesPerSample <= backBufferSize() for each plane that
\* has been laid out), and copyToMediaImage after a successful setBackBuffer
\* stores nothing past the range of the adopted buffer.
C29_SamplesInsideBackBuffer ==
    (conv # NoConv /\ conv.mInitCheck = OK /\ conv.mWrapped = NULL)
    => /\ \A i \in 0..(conv.mMediaImage.mNumPlanes - 1) :
            (/\ conv.mMediaImage.mPlane[i].mVertSubsampling > 0
             /\ conv.mMediaImage.mPlane[i].mHorizSubsampling > 0)
            => PlaneEnd(conv, i) <= conv.mBackBufferSize
       /\ conv.mBackBuffer # NULL
            => \A it \in CopyToMediaImageStores(conv) :
                    /\ it.dst >= 0
                    /\ it.dst + it.n <= bufRange[conv.mBackBuffer.id].size

\* a converter constructed with copy on a P010 view in its canonical layout
\* and a client format without a layout of its own asks for 12 bytes, has
\* adopted a buffer of 64, and copyToMediaImage has returned OK and stores
\* the chroma samples at offsets 16 and 20
C29_Witness ==
    /\ conv # NoConv /\ conv.mInitCheck = OK /\ conv.mWrapped = NULL
    /\ ctorArgs.copy /\ ctorArgs.format = "Surface"
    /\ conv.mView \in {View(C2_OK, 2, 2, b.layout, Place(b.rel, "tight")) :
                          b \in {x \in BaseLayouts(2, 2) : x.name = "P010"}}
    /\ conv.mBackBufferSize = 12
    /\ conv.mBackBuffer = [id |-> "large"]
    /\ bufRange["large"].size = 12
    /\ ret = [op |-> "copyToMediaImage", val |-> OK]
    /\ \E it \in CopyToMediaImageStores(conv) : it.dst = 16 /\ it.n = 2
    /\ \E it \in CopyToMediaImageStores(conv) : it.dst = 20 /\ it.n = 2

----------------------------------------------------------------------------
(* The pool under concurrent callers, checked under SpecCallers.           *)

\* C30: under any interleaving of concurrent fetch calls and block releases
\* on one MemoryBlockPool no block is held by two callers at the same time,
\* every block that has not been destroyed is in exactly one of the free
\* list and the in-use list (once), the blocks held are in use, and fetch
\* puts in use and hands out only blocks that were on the free list or are
\* freshly allocated.
C30_NoBlockHeldTwice ==
    [][/\ \A c \in Callers, other \in Callers :
            c # other => callerBlocks'[c] \cap callerBlocks'[other] = {}
       /\ \A i \in 1..Len(mFreeBlocks' \o mBlocksInUse') :
            \A j \in 1..Len(mFreeBlocks' \o mBlocksInUse') :
                (mFreeBlocks' \o mBlocksInUse')[i] = (mFreeBlocks' \o mBlocksInUse')[j]
                => i = j
       /\ {block.id : block \in BlocksOf(mFreeBlocks' \o mBlocksInUse')}
            \cup {block.id : block \in destroyed'} = 1..allocCount'
       /\ destroyed' \cap BlocksOf(mFreeBlocks' \o mBlocksInUse') = {}
       /\ \A c \in Callers : callerBlocks'[c] \subseteq BlocksOf(mBlocksInUse')
       /\ \A block \in BlocksOf(mBlocksInUse') \ BlocksOf(mBlocksInUse) :
            \/ block \in BlocksOf(mFreeBlocks)
            \/ block.id = allocCount + 1 /\ allocCount' = allocCount + 1
       /\ \A c \in Callers :
            \A block \in callerBlocks'[c] \ callerBlocks[c] :
                \/ \E other \in Callers : block \in callerBlocks[other]
                \/ /\ callerAt[c] \in {"fetch_splice", "fetch_return"}
                   /\ block = Head(mBlocksInUse')
                   /\ callerLocal[c].block \in {NoBlock, block}
                   /\ \A other \in Callers : block \notin callerBlocks[other]]_vars

\* one caller holds the mutex in the middle of fetch, about to splice the
\* only free block into the blocks in use, while the other caller waits in
\* fetch for the mutex, asking for the same size, and holds a block itself
C30_Witness ==
    /\ mMutex = "t1"
    /\ callerAt["t1"] = "fetch_splice"
    /\ callerAt["t2"] = "fetch_lock"
    /\ callerLocal["t1"].size = callerLocal["t2"].size
    /\ Len(mFreeBlocks) = 1
    /\ callerLocal["t1"].block = Head(mFreeBlocks)
    /\ callerBlocks["t2"] # {}

====
